---- MODULE Spec2Model ----
(***************************************************************************)
(* A model of the nektar Hive client: the JSON-RPC transport with node     *)
(* failover (AppBase._send_request), the authority resolver                *)
(* (_get_necessary_wifs over ROLES) and the broadcast pipeline             *)
(* (AppBase.broadcast).                                                    *)
(*                                                                         *)
(* Python values are modelled as strings: "{}" is the empty dictionary the *)
(* transport returns by default, "True"/"False" the booleans, "hex" a      *)
(* non-empty hexadecimal string, "receipt"/"data" non-empty results.       *)
(***************************************************************************)
EXTENDS Integers, Sequences, FiniteSets, Bags, TLC

VARIABLES
    nodes,  \* AppBase.nodes: the ordered list of hosts
    wifs,   \* AppBase.wifs: role -> private key (WIF)
    rpc,    \* the activation of AppBase._send_request
    caller, \* the activation of AppBase.request called on its own
    bc,     \* the activation of AppBase.broadcast
    sent,   \* history: the method of every request that was POSTed
    nk,     \* the activation of a method of Nektar
    chain,  \* the blockchain as the nodes report it
    sg,     \* the activation of a function of transactions.py
    cfg,    \* AppBase.timeout and AppBase.retries
    clients, \* the AppBase instances that share the module's node list
    wg      \* the activation of a listing or crawl of Waggle

vars ==
    <<nodes, wifs, rpc, caller, bc, sent, nk, chain, sg, cfg, clients, wg>>

(***************************************************************************)
(* Bounds of the model.                                                    *)
(***************************************************************************)
MaxNodes == 3
MaxOps == 2
MaxBroadcastNodes == 1

Hosts == {"api.hive.blog", "anyx.io"}

\* the node lists of the transport runs: every list of 1..MaxNodes hosts
NodeLists == UNION {[1..n -> Hosts] : n \in 1..MaxNodes}

(***************************************************************************)
(* Python values                                                           *)
(***************************************************************************)
Absent == "<absent>"
EmptyResult == "{}"

\* bool(value) of a returned value
Truthy(v) == v \notin {"{}", "False", "None", ""}

NoExc == [type |-> "none", msg |-> ""]
Raise(type, msg) == [type |-> type, msg |-> msg]

(***************************************************************************)
(* constants.py                                                            *)
(***************************************************************************)
BLOCKCHAIN_OPERATIONS == {
    "vote", "comment", "transfer", "transfer_to_vesting", "withdraw_vesting",
    "limit_order_create", "limit_order_cancel", "feed_publish", "convert",
    "account_create", "account_update", "witness_update",
    "account_witness_vote", "account_witness_proxy", "pow", "custom",
    "report_over_production", "delete_comment", "custom_json",
    "comment_options", "set_withdraw_vesting_route", "limit_order_create2",
    "claim_account", "create_claimed_account", "request_account_recovery",
    "recover_account", "change_recovery_account", "escrow_transfer",
    "escrow_dispute", "escrow_release", "pow2", "escrow_approve",
    "transfer_to_savings", "transfer_from_savings",
    "cancel_transfer_from_savings", "custom_binary", "decline_voting_rights",
    "reset_account", "set_reset_account", "claim_reward_balance",
    "delegate_vesting_shares", "account_create_with_delegation",
    "witness_set_properties", "account_update2", "create_proposal",
    "update_proposal_votes", "remove_proposal", "fill_convert_request",
    "author_reward", "curation_reward", "comment_reward", "liquidity_reward",
    "producer_reward", "interest", "fill_vesting_withdraw", "fill_order",
    "shutdown_witness", "fill_transfer_from_savings", "hardfork",
    "comment_payout_update", "return_vesting_delegation",
    "comment_benefactor_reward", "clear_null_account_balance",
    "proposal_pay", "sps_fund", "hardfork_hive", "hardfork_hive_restore" }

ROLES ==
    ( "all" :> <<"owner", "active", "posting", "memo">> ) @@
    ( "comment" :> <<"posting", "active", "owner">> ) @@
    ( "follow" :> <<"posting", "active", "owner">> ) @@
    ( "vote" :> <<"posting", "active", "owner">> ) @@
    ( "transfer_to_vesting" :> <<"active", "owner">> ) @@
    ( "transfer_to_savings" :> <<"active", "owner">> ) @@
    ( "transfer" :> <<"active", "owner">> ) @@
    ( "custom_json" :> <<"active">> ) @@
    ( "owner" :> <<"owner">> ) @@
    ( "active" :> <<"active">> ) @@
    ( "posting" :> <<"posting">> ) @@
    ( "memo" :> <<"memo">> )

AllRoles == {ROLES["all"][i] : i \in DOMAIN ROLES["all"]}

NODES ==
    <<"api.hive.blog", "api.openhive.network", "anyx.io", "hived.privex.io",
      "rpc.ausbit.dev", "techcoderx.com", "rpc.ecency.com", "hive.roelandp.nl",
      "hived.emre.sh", "api.deathwing.me", "api.c0ff33a.uk",
      "hive-api.arcange.eu">>

(***************************************************************************)
(* The nodes' answers.  What a node does with one POST is the              *)
(* environment's choice:                                                   *)
(*   conn_fail  session.post raises (no response object)                   *)
(*   http_fail  a response arrives and raise_for_status raises             *)
(*   non_json   HTTP success, json.loads raises on the body                *)
(*   json       HTTP success, the body parses to `doc`                     *)
(***************************************************************************)
ErrorMessages == {"Missing Posting Authority", "Internal Error"}

\* the result values a node gives for a method
Results(method) ==
    CASE method = "condenser_api.get_transaction_hex" -> {"hex"}
      [] method = "condenser_api.verify_authority" -> {"True", "False"}
      [] method \in {"condenser_api.broadcast_transaction",
                     "condenser_api.broadcast_transaction_synchronous"}
            -> {"{}", "receipt"}
      [] OTHER -> {"{}", "data"}

\* a parsed body: a dictionary with or without result / error, null, a number
Dict(result, error) == [py |-> "dict", result |-> result, error |-> error]
PyNone == [py |-> "None", result |-> Absent, error |-> Absent]
PyInt == [py |-> "int", result |-> Absent, error |-> Absent]
\* a requests.Response object (never parsed)
ResponseObject == [py |-> "Response", result |-> Absent, error |-> Absent]

Docs(method) ==
    {Dict(r, Absent) : r \in Results(method)}
        \cup {Dict(Absent, m) : m \in ErrorMessages}
        \cup {Dict(Absent, Absent), PyNone, PyInt}

Answers(method) ==
    {[kind |-> k, doc |-> PyNone] : k \in {"conn_fail", "http_fail", "non_json"}}
        \cup {[kind |-> "json", doc |-> d] : d \in Docs(method)}

\* A node does not report an unsigned transaction as verified.
Plausible(method, signatures, answer) ==
    ~ ( /\ method = "condenser_api.verify_authority"
        /\ signatures = {}
        /\ answer.doc.result = "True" )

\* mutant: the loop stops after the first node, whatever it answered
Completes_StopsAtFirstNode(answer) == TRUE

Completes_NeverBreaks(answer) == FALSE

\* the try body ran to `break`
Completes(answer) == answer.kind = "json"

(***************************************************************************)
(* AppBase._send_request                                                   *)
(***************************************************************************)
\* the variable `response` after the try body of one iteration
ResponseAfter(response, answer) ==
    CASE answer.kind = "conn_fail" -> response
      [] answer.kind \in {"http_fail", "non_json"} -> ResponseObject
      [] OTHER -> answer.doc

\* mutant: an error object is raised in lenient mode too
SendRequestResult_IgnoresStrict(response, strict) ==
    IF response.py = "None"
    THEN [ret |-> EmptyResult, exc |-> NoExc]
    ELSE IF response.py = "int"
    THEN [ret |-> Absent, exc |-> Raise("TypeError", "not iterable")]
    ELSE IF response.py = "dict" /\ response.result # Absent
    THEN [ret |-> response.result, exc |-> NoExc]
    ELSE IF response.py = "dict" /\ response.error # Absent
    THEN [ret |-> Absent, exc |-> Raise("NektarException", response.error)]
    ELSE [ret |-> EmptyResult, exc |-> NoExc]

\* mutant: the raised exception does not carry the node's message
SendRequestResult_DropsMessage(response, strict) ==
    IF response.py = "None"
    THEN [ret |-> EmptyResult, exc |-> NoExc]
    ELSE IF response.py = "int"
    THEN [ret |-> Absent, exc |-> Raise("TypeError", "not iterable")]
    ELSE IF response.py = "dict" /\ response.result # Absent
    THEN [ret |-> response.result, exc |-> NoExc]
    ELSE IF response.py = "dict" /\ response.error # Absent /\ strict
    THEN [ret |-> Absent, exc |-> Raise("NektarException", "")]
    ELSE [ret |-> EmptyResult, exc |-> NoExc]

\* the statements after the loop: what the call returns or raises
SendRequestResult(response, strict) ==
    IF response.py = "None"
    THEN [ret |-> EmptyResult, exc |-> NoExc]
    ELSE IF response.py = "int"
    THEN [ret |-> Absent, exc |-> Raise("TypeError", "not iterable")]
    ELSE IF response.py = "dict" /\ response.result # Absent
    THEN [ret |-> response.result, exc |-> NoExc]
    ELSE IF response.py = "dict" /\ response.error # Absent /\ strict
    THEN [ret |-> Absent, exc |-> Raise("NektarException", response.error)]
    ELSE [ret |-> EmptyResult, exc |-> NoExc]

RpcIdle ==
    [pc |-> "idle", method |-> "", strict |-> TRUE, i |-> 0,
     response |-> PyNone, contacted |-> <<>>, answers |-> <<>>,
     ret |-> Absent, exc |-> NoExc]

\* entry to _send_request(payload, strict): response = None, first node next
SendRequest(method, strict) ==
    [pc |-> "loop", method |-> method, strict |-> strict, i |-> 1,
     response |-> PyNone, contacted |-> <<>>, answers |-> <<>>,
     ret |-> Absent, exc |-> NoExc]

\* One iteration of `for node in self.nodes`, with what follows the loop when
\* this iteration ends it (by break or by exhausting the list).
Post ==
    /\ rpc.pc = "loop"
    /\ rpc.i <= Len(nodes)
    /\ \E answer \in Answers(rpc.method) :
         LET response == ResponseAfter(rpc.response, answer)
             over == Completes(answer) \/ rpc.i = Len(nodes)
             out == SendRequestResult(response, rpc.strict)
         IN  /\ Plausible(rpc.method, bc.signatures, answer)
             /\ rpc' = [rpc EXCEPT
                    !.response = response,
                    !.contacted = Append(@, nodes[rpc.i]),
                    !.answers = Append(@, answer),
                    !.i = @ + 1,
                    !.pc = IF over THEN "returned" ELSE "loop",
                    !.ret = IF over THEN out.ret ELSE @,
                    !.exc = IF over THEN out.exc ELSE @]
             /\ sent' = IF rpc.i = 1 THEN Append(sent, rpc.method) ELSE sent
    /\ UNCHANGED <<nodes, wifs, caller, bc, nk, chain, sg, cfg, clients, wg>>

(***************************************************************************)
(* AppBase.request                                                         *)
(***************************************************************************)
ReadMethods == {"condenser_api.get_content"}

CallerIdle == [pc |-> "idle", ret |-> Absent, exc |-> NoExc]

Request ==
    /\ caller.pc = "idle" /\ bc.pc = "idle" /\ rpc.pc = "idle"
    /\ nk.pc = "idle"
    /\ \E method \in ReadMethods, strict \in BOOLEAN :
         rpc' = SendRequest(method, strict)
    /\ caller' = [caller EXCEPT !.pc = "request"]
    /\ UNCHANGED <<nodes, wifs, bc, sent, nk, chain, sg, cfg, clients, wg>>

RequestReturn ==
    /\ caller.pc = "request" /\ rpc.pc = "returned"
    /\ caller' = [pc |-> "done", ret |-> rpc.ret, exc |-> rpc.exc]
    /\ UNCHANGED <<nodes, wifs, rpc, bc, sent, nk, chain, sg, cfg,
                 clients, wg>>

(***************************************************************************)
(* transactions.sign_transaction, by its contract at the call site: one    *)
(* signature per key, in key order.  The nonce is seeded with the clock,   *)
(* so a signature made in this call differs from any made before.          *)
(***************************************************************************)
Signature(wif) == [by |-> wif, fresh |-> TRUE]

sign_transaction(keys) == [k \in DOMAIN keys |-> Signature(keys[k])]

Range(seq) == {seq[k] : k \in DOMAIN seq}

(***************************************************************************)
(* _get_necessary_wifs                                                     *)
(***************************************************************************)
RECURSIVE FirstRoleIn(_, _, _)
\* for role in roles[k..]: if role in keyring: return role
FirstRoleIn(roles, keyring, k) ==
    IF k > Len(roles) THEN Absent
    ELSE IF roles[k] \in DOMAIN keyring THEN roles[k]
    ELSE FirstRoleIn(roles, keyring, k + 1)

\* mutant: the key of every acceptable role the key ring holds
get_necessary_wifs_EveryRole(keyring, operation) ==
    LET roles == ROLES[operation]
        held == SelectSeq(roles, LAMBDA r : r \in DOMAIN keyring)
    IN  [k \in DOMAIN held |-> keyring[held[k]]]

\* the list of keys the resolver returns (ROLES[operation] must exist)
get_necessary_wifs(keyring, operation) ==
    LET role == FirstRoleIn(ROLES[operation], keyring, 1)
    IN  IF role = Absent THEN <<>> ELSE <<keyring[role]>>

(***************************************************************************)
(* AppBase.broadcast                                                       *)
(***************************************************************************)
BroadcastMethods ==
    {"condenser_api.broadcast_transaction",
     "condenser_api.broadcast_transaction_synchronous"}

SubmitMethods == BroadcastMethods

\* an operation [tag, payload]; of the payload only the length of
\* required_auths is read, and only for custom_json
Op(tag, auths) == [tag |-> tag, required_auths |-> auths]

Ops ==
    {Op(t, 0) : t \in {"vote", "transfer", "delete_comment", "unknown_op"}}
        \cup {Op("custom_json", n) : n \in 0..1}

OperationLists == UNION {[1..n -> Ops] : n \in 0..MaxOps}

\* the signatures a transaction may carry when it is passed in
PriorSignature == [by |-> "5Jprior", fresh |-> FALSE]
PriorSignatureLists ==
    {<<>>, <<PriorSignature>>, <<PriorSignature, PriorSignature>>}

\* a list up to the order of its items: how often each value is in it
ListOf(seq) ==
    [v \in {seq[k] : k \in DOMAIN seq} |->
        Cardinality({k \in DOMAIN seq : seq[k] = v})]

\* mutant: only the first operation is checked
FirstUnsupported_OnlyFirst(ops, k) ==
    IF Len(ops) >= 1 /\ ops[1].tag \notin BLOCKCHAIN_OPERATIONS THEN 1 ELSE 0

RECURSIVE FirstUnsupported(_, _)
\* the first operation whose tag is not in BLOCKCHAIN_OPERATIONS, or 0
FirstUnsupported(ops, k) ==
    IF k > Len(ops) THEN 0
    ELSE IF ops[k].tag \notin BLOCKCHAIN_OPERATIONS THEN k
    ELSE FirstUnsupported(ops, k + 1)

\* mutant: no special case for custom_json without required_auths
DominantOperation_NoDowngrade(ops) ==
    IF Len(ops) = 0 THEN "" ELSE ops[Len(ops)].tag

\* the value of `operation` when the validation loop ends normally
DominantOperation(ops) ==
    IF Len(ops) = 0 THEN ""
    ELSE LET op == ops[Len(ops)]
         IN  IF op.tag = "custom_json" /\ op.required_auths = 0
             THEN "posting" ELSE op.tag

BcIdle ==
    [pc |-> "idle", method |-> "", strict |-> TRUE, verify_only |-> FALSE,
     operations |-> <<>>, prior |-> EmptyBag, list |-> EmptyBag,
     signatures |-> {},
     operation |-> "", necessary |-> <<>>, computed |-> <<>>,
     serialized |-> Absent, verified |-> Absent,
     result |-> Absent, exc |-> NoExc]

BcRaise(b, exc) == [b EXCEPT !.pc = "error", !.exc = exc]

\* broadcast(method, transaction, strict, verify_only) up to the first
\* request: the validation of the operations and the call of _serialize;
\* prior is the list transaction["signatures"] as passed in, list is that
\* list as the call goes on, signatures the values in it
BroadcastCall(method, strict, verify_only, ops, prior) ==
    LET bad == FirstUnsupported(ops, 1)
        b == [BcIdle EXCEPT !.method = method, !.strict = strict,
                            !.verify_only = verify_only,
                            !.operations = ops, !.prior = prior,
                            !.list = prior,
                            !.signatures = BagToSet(prior)]
    IN  IF bad # 0
        THEN /\ bc' = BcRaise(b, Raise("NektarException", "unsupported"))
             /\ rpc' = RpcIdle
        ELSE /\ bc' = [b EXCEPT !.pc = "serialize",
                                !.operation = DominantOperation(ops)]
             /\ rpc' = SendRequest("condenser_api.get_transaction_hex", TRUE)

\* a call of AppBase.broadcast on its own
Broadcast ==
    /\ bc.pc = "idle" /\ caller.pc = "idle" /\ rpc.pc = "idle"
    /\ nk.pc = "idle"
    /\ \E method \in BroadcastMethods, strict \in BOOLEAN,
          verify_only \in BOOLEAN, ops \in OperationLists,
          prior \in PriorSignatureLists :
         BroadcastCall(method, strict, verify_only, ops, ListOf(prior))
    /\ UNCHANGED <<nodes, wifs, caller, sent, nk, chain, sg, cfg, clients, wg>>

\* mutant: the computed signatures are not put on the transaction
ExtendSignatures_Skipped(signatures, sigs) == signatures

\* signatures.extend(...); transaction["signatures"] = list(set(signatures))
ExtendSignatures(signatures, sigs) == signatures \cup Range(sigs)

\* signatures.extend(sigs), on the list
Extended(list, sigs) == list (+) ListOf(sigs)

\* mutant: the list is put on the transaction as it is
Deduplicated_AsItIs(list) == list

\* list(set(signatures)): every value of the list once
Deduplicated(list) == SetToBag(BagToSet(list))

\* from the return of _serialize to the call of verify_authority: the
\* transaction id, the resolver, the signatures
Sign ==
    /\ bc.pc = "serialize" /\ rpc.pc = "returned"
    /\ IF rpc.exc # NoExc
       THEN bc' = BcRaise(bc, rpc.exc) /\ rpc' = RpcIdle
       ELSE IF rpc.ret # "hex"
       THEN /\ bc' = BcRaise([bc EXCEPT !.serialized = rpc.ret],
                             Raise("TypeError", "unhexlify"))
            /\ rpc' = RpcIdle
       ELSE IF bc.operation \notin DOMAIN ROLES
       THEN /\ bc' = BcRaise([bc EXCEPT !.serialized = rpc.ret],
                             Raise("KeyError", bc.operation))
            /\ rpc' = RpcIdle
       ELSE LET keys == get_necessary_wifs(wifs, bc.operation)
                sigs == sign_transaction(keys)
            IN  /\ bc' = [bc EXCEPT !.pc = "verify",
                                    !.serialized = rpc.ret,
                                    !.necessary = keys,
                                    !.computed = sigs,
                                    !.list =
                                        Deduplicated(Extended(bc.list, sigs)),
                                    !.signatures =
                                        ExtendSignatures(bc.signatures, sigs)]
                /\ rpc' = SendRequest("condenser_api.verify_authority", TRUE)
    /\ UNCHANGED <<nodes, wifs, caller, sent, nk, chain, sg, cfg, clients, wg>>

\* mutant: the result of the verification is not looked at
VerificationRejected_Never(strict, verified) == FALSE

\* `if strict and not verified`
VerificationRejected(strict, verified) == strict /\ ~Truthy(verified)

\* from the return of verify_authority to the submit request
Verify ==
    /\ bc.pc = "verify" /\ rpc.pc = "returned"
    /\ IF rpc.exc # NoExc
       THEN bc' = BcRaise(bc, rpc.exc) /\ rpc' = RpcIdle
       ELSE IF VerificationRejected(bc.strict, rpc.ret)
       THEN /\ bc' = BcRaise([bc EXCEPT !.verified = rpc.ret],
                             Raise("NektarException", "required signatures"))
            /\ rpc' = RpcIdle
       ELSE IF bc.verify_only
       THEN /\ bc' = [bc EXCEPT !.pc = "done", !.verified = rpc.ret,
                                !.result = rpc.ret]
            /\ rpc' = RpcIdle
       ELSE /\ bc' = [bc EXCEPT !.pc = "submit", !.verified = rpc.ret]
            /\ rpc' = SendRequest(bc.method, bc.strict)
    /\ UNCHANGED <<nodes, wifs, caller, sent, nk, chain, sg, cfg, clients, wg>>

\* from the return of the submit request to the end of broadcast
Submit ==
    /\ bc.pc = "submit" /\ rpc.pc = "returned"
    /\ rpc' = RpcIdle
    /\ IF rpc.exc # NoExc
       THEN bc' = BcRaise(bc, rpc.exc)
       ELSE IF bc.method = "condenser_api.broadcast_transaction" /\ ~bc.strict
       THEN bc' = BcRaise(bc, Raise("NameError", "transaction_id"))
       ELSE bc' = [bc EXCEPT !.pc = "done", !.result = rpc.ret]
    /\ UNCHANGED <<nodes, wifs, caller, sent, nk, chain, sg, cfg, clients, wg>>

(***************************************************************************)
(* The chain as the nodes report it.  A block id is a sequence of hex      *)
(* digits (0..15): the block number in 4 bytes, most significant first,    *)
(* then the bytes of the hash.  Only the first 8 bytes are kept, the bytes *)
(* get_reference_block_data reads.                                         *)
(***************************************************************************)
RECURSIVE HexOf(_, _)
\* the `width` hex digits of n, most significant first
HexOf(n, width) ==
    IF width = 0 THEN <<>>
    ELSE Append(HexOf(n \div 16, width - 1), n % 16)

\* digit j of the hash of block n
HashDigit(n, j) ==
    (n * (2 * j + 1) + (n \div 16) * j + (n \div 4096) + j * j) % 16

BlockId(n) == HexOf(n, 8) \o [j \in 1..8 |-> HashDigit(n, j)]

\* blocks["block"]["previous"] of the block at height n
PreviousOf(n) == BlockId(n - 1)

\* head block numbers the properties request may report
Heads == {3, 7, 65538, 65539, 100003, 131075}

DefaultHead == 100003

(***************************************************************************)
(* Nektar.get_reference_block_data and the functions it uses               *)
(***************************************************************************)
RECURSIVE BitAnd(_, _)
\* x & y for y >= 0, bit by bit
BitAnd(x, y) ==
    IF y = 0 THEN 0
    ELSE (x % 2) * (y % 2) + 2 * BitAnd(x \div 2, y \div 2)

\* mutant: the offset of 3 blocks is left out
ref_block_num_NoOffset(head_block_number) == BitAnd(head_block_number, 65535)

\* mutant: & binds before -, so nothing is masked
ref_block_num_MaskFirst(head_block_number) ==
    head_block_number - BitAnd(3, 65535)

\* properties["head_block_number"] - 3 & 0xFFFF
ref_block_num(head_block_number) == BitAnd(head_block_number - 3, 65535)

\* block_number = head_block_number - 2
previous_block_number(head_block_number) == head_block_number - 2

\* binascii.unhexlify: two hex digits make one byte
unhexlify(digits) ==
    [k \in 1..(Len(digits) \div 2) |-> 16 * digits[2 * k - 1] + digits[2 * k]]

RECURSIVE LittleEndian(_, _, _)
\* the number written in the n bytes from bytes[k], least significant first
LittleEndian(bytes, k, n) ==
    IF n = 0 THEN 0
    ELSE bytes[k] + 256 * LittleEndian(bytes, k + 1, n - 1)

\* mutant: the four bytes read most significant first
unpack_from_BigEndian(bytes, offset) ==
    [hi |-> 256 * bytes[offset + 1] + bytes[offset + 2],
     lo |-> 256 * bytes[offset + 3] + bytes[offset + 4]]

\* struct.unpack_from("<I", bytes, offset)[0].  The unsigned 32-bit value is
\* kept as two 16-bit halves, value = hi * 65536 + lo, so that the whole
\* range of the type is covered.
unpack_from(bytes, offset) ==
    [lo |-> LittleEndian(bytes, offset + 1, 2),
     hi |-> LittleEndian(bytes, offset + 3, 2)]

ref_block_prefix(previous) == unpack_from(unhexlify(previous), 4)

NkIdle ==
    [pc |-> "idle", op |-> "", synchronous |-> FALSE, strict |-> TRUE,
     debug |-> FALSE, expire |-> 0, head |-> 0, block_num |-> 0,
     ref_block_num |-> 0, ref_block_prefix |-> [lo |-> 0, hi |-> 0],
     resolved |-> FALSE, built |-> FALSE, offset |-> 0, calls |-> 0,
     retries |-> 0, attempts |-> 0, results |-> <<>>,
     result |-> Absent, exc |-> NoExc]

NkRaise(n, exc) == [n EXCEPT !.pc = "error", !.exc = exc]

\* get_reference_block_data called on its own, up to the request of
\* get_dynamic_global_properties("database")
GetReferenceBlockData ==
    /\ nk.pc = "idle" /\ bc.pc = "idle" /\ caller.pc = "idle"
    /\ rpc.pc = "idle"
    /\ nk' = [nk EXCEPT !.pc = "properties",
                        !.op = "get_reference_block_data"]
    /\ rpc' = SendRequest("database_api.get_dynamic_global_properties", TRUE)
    /\ UNCHANGED <<nodes, wifs, caller, bc, sent, chain, sg, cfg, clients, wg>>

\* from the return of the properties request to the request of
\* get_previous_block: ref_block_num, then block_api.get_block
GetPreviousBlock ==
    /\ nk.pc = "properties" /\ rpc.pc = "returned"
    /\ IF rpc.exc # NoExc
       THEN nk' = NkRaise(nk, rpc.exc) /\ rpc' = RpcIdle
       ELSE IF rpc.ret = EmptyResult
       THEN /\ nk' = NkRaise(nk, Raise("KeyError", "head_block_number"))
            /\ rpc' = RpcIdle
       ELSE /\ nk' = [nk EXCEPT
                  !.pc = "block",
                  !.head = chain.head,
                  !.ref_block_num = ref_block_num(chain.head),
                  !.block_num = previous_block_number(chain.head)]
            /\ rpc' = SendRequest("block_api.get_block", TRUE)
    /\ UNCHANGED <<nodes, wifs, caller, bc, sent, chain, sg, cfg, clients, wg>>

\* the activation after get_block returned: blocks["block"]["previous"]
\* and the prefix read from it
AfterPreviousBlock ==
    IF rpc.exc # NoExc THEN NkRaise(nk, rpc.exc)
    ELSE IF rpc.ret = EmptyResult THEN NkRaise(nk, Raise("KeyError", "block"))
    ELSE [nk EXCEPT
            !.ref_block_prefix = ref_block_prefix(PreviousOf(nk.block_num)),
            !.resolved = TRUE]

\* the return of get_reference_block_data called on its own
GetReferenceBlockDataReturn ==
    /\ nk.pc = "block" /\ rpc.pc = "returned"
    /\ nk.op = "get_reference_block_data"
    /\ LET n == AfterPreviousBlock
       IN  nk' = IF n.pc = "error" THEN n
                 ELSE [n EXCEPT !.pc = "done", !.result = "data"]
    /\ rpc' = RpcIdle
    /\ UNCHANGED <<nodes, wifs, caller, bc, sent, chain, sg, cfg, clients, wg>>

(***************************************************************************)
(* Nektar: the broadcasting operations and _broadcast                      *)
(***************************************************************************)
BroadcastingOperations == {"custom_json", "memo", "new_post", "reply", "vote"}

\* values of `expire` a caller passes
ExpireInputs == {4, 5, 120, 3600}

\* _check_wifs(roles, operation)
check_wifs(roles, operation) ==
    \E k \in DOMAIN ROLES[operation] : ROLES[operation][k] \in roles

\* the role the operation checks before it builds anything; memo checks
\* none.  custom_json is called with required_posting_auths only.
CheckedRole(op) ==
    CASE op = "custom_json" -> "posting"
      [] op \in {"new_post", "reply"} -> "comment"
      [] op = "vote" -> "vote"
      [] OTHER -> Absent

\* the operations of the transaction the operation builds
OperationsOf(op) ==
    CASE op = "custom_json" -> <<Op("custom_json", 0)>>
      [] op = "memo" -> <<Op("transfer", 0)>>
      [] op \in {"new_post", "reply"} -> <<Op("comment", 0)>>
      [] OTHER -> <<Op("vote", 0)>>

\* _within_range(value, minimum, maximum, fallback) for an integer value
\* and a fallback that is not None
within_range(value, minimum, maximum, fallback) ==
    IF minimum <= value /\ value <= maximum THEN value ELSE fallback

\* the seconds _make_expiration adds to the clock: new_post and reply call
\* it before they clamp `expire`, the others after
ExpirationOffset(op, expire) ==
    IF op \in {"new_post", "reply"} THEN expire
    ELSE within_range(expire, 5, 120, 30)

\* the strict and debug arguments of the call of _broadcast: custom_json
\* passes the transaction and `synchronous` only
ForwardedStrict(op, strict) == IF op = "custom_json" THEN TRUE ELSE strict

ForwardedDebug(op, debug) == IF op = "custom_json" THEN FALSE ELSE debug

\* mutant: always the asynchronous method
BroadcastMethod_AlwaysAsynchronous(synchronous) ==
    "condenser_api.broadcast_transaction"

\* the method _broadcast passes to AppBase.broadcast, in its first call and
\* in the call after the `if synchronous` block
BroadcastMethod(synchronous) ==
    IF synchronous THEN "condenser_api.broadcast_transaction_synchronous"
    ELSE "condenser_api.broadcast_transaction"

\* a broadcasting operation, from its call to the first request of
\* get_reference_block_data
NektarOperation ==
    /\ nk.pc = "idle" /\ bc.pc = "idle" /\ caller.pc = "idle"
    /\ rpc.pc = "idle"
    /\ \E op \in BroadcastingOperations, expire \in ExpireInputs,
          synchronous \in BOOLEAN, strict \in BOOLEAN, debug \in BOOLEAN :
         LET n == [nk EXCEPT !.op = op, !.expire = expire,
                             !.synchronous = synchronous,
                             !.strict = strict, !.debug = debug]
         IN  IF /\ CheckedRole(op) # Absent
                /\ ~check_wifs(DOMAIN wifs, CheckedRole(op))
             THEN /\ nk' = NkRaise(n, Raise("NektarException", "private keys"))
                  /\ rpc' = rpc
             ELSE /\ nk' = [n EXCEPT !.pc = "properties"]
                  /\ rpc' = SendRequest(
                        "database_api.get_dynamic_global_properties", TRUE)
    /\ UNCHANGED <<nodes, wifs, caller, bc, sent, chain, sg, cfg, clients, wg>>

\* from the return of get_previous_block to the first request of the first
\* call of AppBase.broadcast: the reference data, the expiration, the
\* transaction and the entry to _broadcast
BuildTransaction ==
    /\ nk.pc = "block" /\ rpc.pc = "returned"
    /\ nk.op \in BroadcastingOperations
    /\ LET n == AfterPreviousBlock
       IN  IF n.pc = "error"
           THEN nk' = n /\ rpc' = RpcIdle /\ bc' = bc
           ELSE /\ nk' = [n EXCEPT
                      !.pc = "broadcast", !.built = TRUE, !.calls = 1,
                      !.offset = ExpirationOffset(nk.op, nk.expire)]
                /\ BroadcastCall(BroadcastMethod(nk.synchronous),
                                 ForwardedStrict(nk.op, nk.strict),
                                 ForwardedDebug(nk.op, nk.debug),
                                 OperationsOf(nk.op), EmptyBag)
    /\ UNCHANGED <<nodes, wifs, caller, sent, chain, sg, cfg, clients, wg>>

\* the signatures on the transaction when it is passed to broadcast again:
\* made before that call
Carried(signatures) == {[s EXCEPT !.fresh = FALSE] : s \in signatures}

\* _broadcast after a call of AppBase.broadcast ended: an exception goes to
\* the caller; the first call of the synchronous branch returns its result
\* if it is truthy; otherwise broadcast is called again with the same
\* transaction; the result of that call is returned
BroadcastReturn ==
    /\ nk.pc = "broadcast" /\ bc.pc \in {"done", "error"}
    /\ IF bc.pc = "error"
       THEN nk' = NkRaise(nk, bc.exc) /\ UNCHANGED <<bc, rpc>>
       ELSE IF nk.synchronous /\ nk.calls = 1 /\ ~Truthy(bc.result)
       THEN /\ nk' = [nk EXCEPT !.calls = 2]
            /\ BroadcastCall(BroadcastMethod(nk.synchronous),
                             ForwardedStrict(nk.op, nk.strict),
                             ForwardedDebug(nk.op, nk.debug),
                             bc.operations,
                             SetToBag(Carried(BagToSet(bc.list))))
       ELSE /\ nk' = [nk EXCEPT !.pc = "done", !.result = bc.result]
            /\ UNCHANGED <<bc, rpc>>
    /\ UNCHANGED <<nodes, wifs, caller, sent, chain, sg, cfg, clients, wg>>

(***************************************************************************)
(* transactions.py on a scaled-down curve.  The module signs on secp256k1, *)
(* y^2 = x^3 + 7 over a 256-bit prime field with a group of 256-bit prime  *)
(* order n < p.  The model keeps the form of the equation, y^2 = x^3 + b,  *)
(* over a field of 103 elements (103 % 4 = 3, as for secp256k1), where     *)
(* b = 5 gives a group of the prime order 97 < 103.  A "byte" of an        *)
(* encoded number is a base-16 digit here, so the order takes OrderLen = 2 *)
(* of them where secp256k1 takes 32; as on secp256k1, every number r whose *)
(* DER encoding has the full length is at least p - n.                     *)
(***************************************************************************)
CurveP == 103

CurveB == 5

CurveN == 97

DigitBase == 16

OrderLen == 2

INFINITY == [x |-> -1, y |-> -1]

\* the generator of the group
CurveG == [x |-> 2, y |-> 42]

RECURSIVE PowMod(_, _, _)
\* pow(a, k, m)
PowMod(a, k, m) ==
    IF k = 0 THEN 1 % m
    ELSE CHOOSE v \in {IF k % 2 = 1 THEN (((h * h) % m) * (a % m)) % m
                                     ELSE (h * h) % m :
                       h \in {PowMod(a, k \div 2, m)}} : TRUE

\* numbertheory.inverse_mod(a, m) for a prime m and a not a multiple of m
inverse_mod(a, m) == CHOOSE b \in 0..(m - 1) : (a * b) % m = 1 % m

\* the slope of the line through P and Q, of the tangent when P = Q
Slope(P, Q) ==
    IF P = Q
    THEN (3 * P.x * P.x * inverse_mod(2 * P.y, CurveP)) % CurveP
    ELSE ((Q.y - P.y) * inverse_mod((Q.x - P.x) % CurveP, CurveP)) % CurveP

\* ellipticcurve.Point.__add__ and double
PointAdd(P, Q) ==
    IF P = INFINITY THEN Q
    ELSE IF Q = INFINITY THEN P
    ELSE IF P.x = Q.x /\ (P.y + Q.y) % CurveP = 0 THEN INFINITY
    ELSE CHOOSE R \in
           {[x |-> x, y |-> (l * (P.x - x) - P.y) % CurveP] :
              <<l, x>> \in {<<m, (m * m - P.x - Q.x) % CurveP>> :
                               m \in {Slope(P, Q)}}} : TRUE

RECURSIVE PointMul(_, _)
\* ellipticcurve.Point.__mul__: k * P for k >= 0
PointMul(k, P) ==
    IF k = 0 THEN INFINITY
    ELSE CHOOSE R \in
           {IF k % 2 = 1 THEN PointAdd(hh, P) ELSE hh :
              hh \in {PointAdd(h, h) : h \in {PointMul(k \div 2, P)}}} : TRUE

\* sk.get_verifying_key(): the public point of a private scalar
PublicKey(d) == PointMul(d, CurveG)

\* the exception-or-value results of the functions below
Ok(v) == [exc |-> NoExc, value |-> v]

Fail(type) == [exc |-> Raise(type, ""), value |-> INFINITY]

\* ecdsa.ecdsa.Private_key.sign(e, k) as called by sk.sign_digest: the pair
\* (r, s), or RSZeroError (a RuntimeError) when r or s is 0
sign_digest(d, e, k) ==
    CHOOSE sd \in
      {[exc |-> IF r = 0 \/ s = 0 THEN Raise("RuntimeError", "unlucky")
                ELSE NoExc,
        r |-> r, s |-> s] :
         <<r, s>> \in
           {<<x, (inverse_mod(k, CurveN) * ((e + ((d * x) % CurveN)) % CurveN))
                    % CurveN>> :
              x \in {PointMul(k, CurveG).x % CurveN}}} : TRUE

RECURSIVE Digits(_)
\* the digits of v > 0, most significant first, without leading zeros
Digits(v) == IF v = 0 THEN <<>> ELSE Append(Digits(v \div DigitBase), v % DigitBase)

\* the length field of the DER INTEGER that holds v >= 0: the shortest
\* big-endian form, one more when its top bit is set
DerLength(v) ==
    LET ds == IF v = 0 THEN <<0>> ELSE Digits(v)
    IN  Len(ds) + (IF 2 * ds[1] >= DigitBase THEN 1 ELSE 0)

RECURSIVE number_to_string(_, _)
\* ecdsa.util.number_to_string: v in exactly `len` digits
number_to_string(v, len) ==
    IF len = 0 THEN <<>>
    ELSE Append(number_to_string(v \div DigitBase, len - 1), v % DigitBase)

\* ecdsa.util.sigencode_string(r, s, order)
sigencode_string(r, s) ==
    number_to_string(r, OrderLen) \o number_to_string(s, OrderLen)

RECURSIVE string_to_number(_)
string_to_number(ds) ==
    IF ds = <<>> THEN 0
    ELSE DigitBase * string_to_number(SubSeq(ds, 1, Len(ds) - 1)) + ds[Len(ds)]

\* ecdsa.util.sigdecode_string(signature, order)
sigdecode_string(signature) ==
    [r |-> string_to_number(SubSeq(signature, 1, OrderLen)),
     s |-> string_to_number(SubSeq(signature, OrderLen + 1, 2 * OrderLen))]

\* binascii.hexlify: two hex digits for each unit of the string
hexlify(units) ==
    [k \in 1..(2 * Len(units)) |->
        IF k % 2 = 1 THEN units[(k + 1) \div 2] \div 16
        ELSE units[k \div 2] % 16]

\* numbertheory.square_root_mod_prime(a, p) for p % 4 = 3, the case of
\* secp256k1 and of CurveP: SquareRootError when a is not a square
square_root_mod_prime(a) ==
    IF a = 0 THEN [exc |-> NoExc, value |-> 0]
    ELSE IF PowMod(a, (CurveP - 1) \div 2, CurveP) # 1
    THEN [exc |-> Raise("SquareRootError", ""), value |-> 0]
    ELSE [exc |-> NoExc, value |-> PowMod(a, (CurveP + 1) \div 4, CurveP)]

\* VerifyingKey.verify_digest(signature, digest) for the public point Q:
\* TRUE, or FALSE where the library raises BadSignatureError
verify_digest(Q, signature, e) ==
    \E sig \in {sigdecode_string(signature)} :
      /\ sig.r \in 1..(CurveN - 1)
      /\ sig.s \in 1..(CurveN - 1)
      /\ \E c \in {inverse_mod(sig.s, CurveN)} :
           \E xy \in {PointAdd(PointMul((e * c) % CurveN, CurveG),
                                PointMul((sig.r * c) % CurveN, Q))} :
              /\ xy # INFINITY
              /\ xy.x % CurveN = sig.r

\* recover_public_key(digest, signature, i): the public point, or the
\* exception of the library call that fails
recover_public_key(e, signature, i) ==
    LET yp == i % 2
        sig == sigdecode_string(signature)
        x == (sig.r + (i \div 2) * CurveN) % CurveP
        alpha == (((x * x) % CurveP) * x + CurveB) % CurveP
    IN  CHOOSE res \in
          {IF root.exc # NoExc THEN Fail(root.exc.type)
           ELSE LET beta == root.value
                    y == IF (beta - yp) % 2 = 0 THEN beta ELSE CurveP - beta
                    R == [x |-> x, y |-> y % CurveP]
                IN  CHOOSE out \in
                      {IF Q = INFINITY THEN Fail("TypeError")
                       ELSE IF ~verify_digest(Q, signature, e)
                       THEN Fail("BadSignatureError")
                       ELSE Ok(Q) :
                         Q \in {PointMul(inverse_mod(sig.r, CurveN),
                                         PointAdd(PointMul(sig.s, R),
                                                  PointMul((-e) % CurveN,
                                                           CurveG)))}} : TRUE :
             root \in {square_root_mod_prime(alpha)}} : TRUE

\* the value that stands for Python's None as a candidate index
NoCandidate == -1

RECURSIVE RecoverFrom(_, _, _, _)
\* the loop `for i in range(i, 4)` of recover_pubkey_parameter
RecoverFrom(e, signature, pubkey, i) ==
    IF i = 4 THEN [exc |-> NoExc, i |-> NoCandidate]
    ELSE CHOOSE res \in
           {IF p.exc # NoExc THEN [exc |-> p.exc, i |-> NoCandidate]
            ELSE IF p.value = pubkey THEN [exc |-> NoExc, i |-> i]
            ELSE RecoverFrom(e, signature, pubkey, i + 1) :
              p \in {recover_public_key(e, signature, i)}} : TRUE

\* mutant: the parameter is taken to be 0 without a search
recover_pubkey_parameter_First(e, signature, pubkey) ==
    [exc |-> NoExc, i |-> 0]

recover_pubkey_parameter(e, signature, pubkey) ==
    RecoverFrom(e, signature, pubkey, 0)

\* mutant: the parameter itself as the header
Header_NoOffset(i) == i

\* i += 31  # compressed 4 + compact 27
Header(i) == i + 31

\* private scalars and digests (as numbers) the signing is checked for
Scalars == {1, 40, 96}

Digests == {0, 5, 200}

\* the values generate_k can return: it is seeded with the clock
Nonces == 1..(CurveN - 1)

SgIdle ==
    [pc |-> "idle", d |-> 0, e |-> 0, pubkey |-> INFINITY,
     r |-> 0, s |-> 0, i |-> NoCandidate, header |-> 0,
     signatures |-> <<>>, retried |-> FALSE,
     recovered |-> Ok(INFINITY), exc |-> NoExc,
     keys |-> <<>>, n |-> 0, last |-> "none", serialized |-> <<>>,
     used |-> <<>>]

SgRaise(g, exc) == [g EXCEPT !.pc = "error", !.exc = exc]

\* HIVE_CHAIN_ID, as hex digits: beeab0de and 28 zero bytes
HIVE_CHAIN_ID ==
    [k \in 1..64 |-> IF k <= 8 THEN <<11, 14, 14, 10, 11, 0, 13, 14>>[k]
                     ELSE 0]

RECURSIVE ShaFold(_, _)
\* the state of the hash after the first k bytes of the message
ShaFold(bytes, k) ==
    IF k = 0 THEN 99
    ELSE (ShaFold(bytes, k - 1) * 33 + bytes[k] + k) % (DigitBase ^ OrderLen)

\* hashlib.sha256(message).digest(): a digest of the length of the order.
\* The hash function is replaced by a mixing function of every byte of the
\* message and its position.
sha256(bytes) == number_to_string(ShaFold(bytes, Len(bytes)), OrderLen)

\* mutant: the whole serialized transaction is hashed
Message_WholeTransaction(serialized_transaction) ==
    unhexlify(HIVE_CHAIN_ID \o serialized_transaction)

\* unhexlify(HIVE_CHAIN_ID + serialized_transaction[0:-2])
Message(serialized_transaction) ==
    unhexlify(HIVE_CHAIN_ID
              \o SubSeq(serialized_transaction, 1,
                        Len(serialized_transaction) - 2))

\* the digest of a serialized transaction as the number that is signed
DigestOf(serialized_transaction) ==
    string_to_number(sha256(Message(serialized_transaction)))

\* `if lenR == 32 and lenS == 32`
Canonical(lenR, lenS) == lenR = OrderLen /\ lenS = OrderLen

\* mutant: the newest signature is put first
AppendSignature_First(signatures, sigstr) == <<sigstr>> \o signatures

\* signatures.append(hexlify(sigstr).decode("ascii"))
AppendSignature(signatures, sigstr) == Append(signatures, sigstr)

\* the start of sign_transaction for the keys and the digest: the loop of
\* the first key, or the return when there is no key
Started(keys, e, serialized_transaction) ==
    IF keys = <<>>
    THEN [SgIdle EXCEPT !.pc = "done", !.e = e,
                        !.serialized = serialized_transaction]
    ELSE [SgIdle EXCEPT !.pc = "loop", !.d = keys[1], !.e = e,
                        !.pubkey = PublicKey(keys[1]),
                        !.keys = keys, !.n = 1,
                        !.serialized = serialized_transaction]

\* sign_transaction(serialized_transaction, [wif]) up to the loop: the
\* digest and the signing key
SignTransaction ==
    /\ sg.pc = "idle" /\ nk.pc = "idle" /\ bc.pc = "idle"
    /\ caller.pc = "idle"
    /\ \E d \in Scalars, e \in Digests :
         sg' = Started(<<d>>, e, <<>>)
    /\ UNCHANGED <<nodes, wifs, rpc, caller, bc, sent, nk, chain, cfg,
                 clients, wg>>

\* one iteration of `while True` with a nonce of K, with what follows the
\* loop when the iteration leaves it: the signature is appended and the
\* loop of the next key starts, or sign_transaction returns
SignIterationOver(K) ==
    /\ sg.pc = "loop"
    /\ \E k \in K :
       \E sd \in {sign_digest(sg.d, sg.e, k)} :
         LET signature == sigencode_string(sd.r, sd.s)
             lenR == DerLength(sd.r)
             lenS == DerLength(sd.s)
             g == [sg EXCEPT !.r = sd.r, !.s = sd.s,
                             !.last = IF sd.exc # NoExc THEN "failed"
                                      ELSE "canonical"]
         IN  IF sd.exc # NoExc
             THEN sg' = SgRaise(g, sd.exc)
             ELSE IF ~Canonical(lenR, lenS)
             THEN sg' = [sg EXCEPT !.retried = TRUE,
                                   !.last = "noncanonical"]
             ELSE \E rp \in {recover_pubkey_parameter(sg.e, signature,
                                                       sg.pubkey)} :
                    IF rp.exc # NoExc THEN sg' = SgRaise(g, rp.exc)
                    ELSE IF rp.i = NoCandidate
                    THEN sg' = SgRaise(g, Raise("TypeError",
                                                "NoneType += int"))
                    ELSE \E h \in {[g EXCEPT
                            !.i = rp.i,
                            !.header = Header(rp.i),
                            !.used = Append(@, sg.e),
                            !.signatures =
                               AppendSignature(@, hexlify(<<Header(rp.i)>>
                                                          \o signature))]} :
                         IF sg.n < Len(sg.keys)
                         THEN sg' = [h EXCEPT
                                 !.n = @ + 1,
                                 !.d = sg.keys[sg.n + 1],
                                 !.pubkey = PublicKey(sg.keys[sg.n + 1])]
                         ELSE sg' = [h EXCEPT !.pc = "done"]
    /\ UNCHANGED <<nodes, wifs, rpc, caller, bc, sent, nk, chain, cfg,
                 clients, wg>>

SignIteration == SignIterationOver(Nonces)

\* the longest list of keys sign_transaction is called with
MaxKeys == 2

KeyLists == UNION {[1..n -> Scalars] : n \in 0..MaxKeys}

\* serialized transactions, as hex digits: two that differ in the last
\* byte only, one that differs before it, and a longer one
SerializedInputs ==
    { <<1, 2, 0, 0>>, <<1, 2, 15, 15>>, <<3, 4, 0, 0>>,
      <<1, 2, 3, 4, 0, 0>> }

\* a few of the values of generate_k, with canonical and non-canonical
\* signatures among their results for every key and digest
FewNonces == {1, 2, 3, 10, 17, 22}

\* sign_transaction(serialized_transaction, wifs) up to the loop of the
\* first key: the message and its digest
SignTransactionKeys ==
    /\ sg.pc = "idle" /\ nk.pc = "idle" /\ bc.pc = "idle"
    /\ caller.pc = "idle"
    /\ \E keys \in KeyLists, serialized_transaction \in SerializedInputs :
       \E e \in {DigestOf(serialized_transaction)} :
         sg' = Started(keys, e, serialized_transaction)
    /\ UNCHANGED <<nodes, wifs, rpc, caller, bc, sent, nk, chain, cfg,
                 clients, wg>>

SignIterationFew == SignIterationOver(FewNonces)

\* recover_public_key applied to a signature sign_transaction returned,
\* with the parameter its header holds
RecoverSigner ==
    /\ sg.pc = "done"
    /\ LET sigstr == unhexlify(sg.signatures[1])
           signature == SubSeq(sigstr, 2, Len(sigstr))
       IN  sg' = [sg EXCEPT
                 !.pc = "recovered",
                 !.recovered = recover_public_key(sg.e, signature,
                                                  sigstr[1] - 31)]
    /\ UNCHANGED <<nodes, wifs, rpc, caller, bc, sent, nk, chain, cfg,
                 clients, wg>>

\* recover_pubkey_parameter called with a signature made by the scalar d
\* and the public key of the scalar owner
RecoverPubkeyParameter ==
    /\ sg.pc = "idle" /\ nk.pc = "idle" /\ bc.pc = "idle"
    /\ caller.pc = "idle"
    /\ \E d \in Scalars, owner \in Scalars, e \in Digests, k \in Nonces :
       \E sd \in {sign_digest(d, e, k)}, pub \in {PublicKey(owner)} :
         /\ sd.exc = NoExc
         /\ \E rp \in {recover_pubkey_parameter(
                          e, sigencode_string(sd.r, sd.s), pub)} :
              sg' = [SgIdle EXCEPT
                    !.pc = "parameter", !.d = d, !.e = e, !.pubkey = pub,
                    !.r = sd.r, !.s = sd.s, !.i = rp.i, !.exc = rp.exc]
    /\ UNCHANGED <<nodes, wifs, rpc, caller, bc, sent, nk, chain, cfg,
                 clients, wg>>

(***************************************************************************)
(* Nektar.get_post, get_content, replies, reblogs and votes: the retried   *)
(* reads.  nk.retries is the argument, nk.attempts the number of requests  *)
(* made so far and nk.results what each finished request returned.         *)
(***************************************************************************)
ReadOperations == {"get_post", "get_content", "replies", "reblogs", "votes"}

\* the API method each read calls
ReadMethod(op) ==
    CASE op = "get_post" -> "bridge.get_post"
      [] op = "get_content" -> "condenser_api.get_content"
      [] op = "replies" -> "condenser_api.get_content_replies"
      [] op = "reblogs" -> "condenser_api.get_reblogged_by"
      [] OTHER -> "condenser_api.get_active_votes"

\* what the read returns after the loop
EmptyValue(op) == IF op = "reblogs" THEN "[]" ELSE "{}"

\* len(data) for the values a request returns
PyLen(data) == IF data \in {"{}", "[]"} THEN 0 ELSE 1

ReadRetriesInputs == 0..6

\* the range check on retries
ValidRetries(retries) == 1 <= retries /\ retries <= 5

ReadStrict_Always(retries) == TRUE

\* strict = retries == 1
ReadStrict(retries) == retries = 1

\* a read called with retries, up to its first request
ReadOperation ==
    /\ nk.pc = "idle" /\ bc.pc = "idle" /\ caller.pc = "idle"
    /\ rpc.pc = "idle" /\ sg.pc = "idle"
    /\ \E op \in ReadOperations, retries \in ReadRetriesInputs :
         IF ~ValidRetries(retries)
         THEN /\ nk' = NkRaise([nk EXCEPT !.op = op, !.retries = retries],
                         Raise("NektarException",
                               "Retries must be between 1 to 5 times."))
              /\ rpc' = rpc
         ELSE /\ nk' = [nk EXCEPT !.pc = "read", !.op = op,
                                  !.retries = retries,
                                  !.strict = ReadStrict(retries),
                                  !.attempts = 1]
              /\ rpc' = SendRequest(ReadMethod(op), ReadStrict(retries))
    /\ UNCHANGED <<nodes, wifs, caller, bc, sent, chain, sg, cfg, clients, wg>>

\* from the return of one request to the next request or to the return of
\* the read
ReadReturn ==
    /\ nk.pc = "read" /\ rpc.pc = "returned"
    /\ IF rpc.exc # NoExc
       THEN nk' = NkRaise(nk, rpc.exc) /\ rpc' = RpcIdle
       ELSE IF PyLen(rpc.ret) > 0
       THEN /\ nk' = [nk EXCEPT !.pc = "done", !.result = rpc.ret,
                                !.results = Append(@, rpc.ret)]
            /\ rpc' = RpcIdle
       ELSE IF nk.attempts < nk.retries
       THEN /\ nk' = [nk EXCEPT !.attempts = @ + 1,
                                !.results = Append(@, rpc.ret)]
            /\ rpc' = SendRequest(ReadMethod(nk.op), nk.strict)
       ELSE /\ nk' = [nk EXCEPT !.pc = "done", !.result = EmptyValue(nk.op),
                                !.results = Append(@, rpc.ret)]
            /\ rpc' = RpcIdle
    /\ UNCHANGED <<nodes, wifs, caller, bc, sent, chain, sg, cfg, clients, wg>>

(***************************************************************************)
(* AppBase configuration: set_timeout, set_retries, custom_nodes and       *)
(* append_wif.  cfg.call records the last configuration call: its name,    *)
(* its argument, the exception it raised and what it started from (the key *)
(* ring, or the stored value of the setting).                              *)
(***************************************************************************)
\* the longest list handed to custom_nodes and the largest dictionary
\* handed to append_wif
MaxCustomList == 2

\* custom_nodes is called while at most this many nodes were added before
MaxCustomNodes == 3

NoCall == [name |-> "", form |-> "", arg |-> <<>>, exc |-> NoExc,
           before |-> <<>>]

\* timeout = 10 and retries = 3, the defaults of the constructor
CfgDefault == [timeout |-> 10, retries |-> 3, call |-> NoCall]

TimeoutInputs == {-1, 0, 4, 5, 60, 120, 121}

RetriesInputs == {-1, 0, 1, 5, 10, 11}

set_timeout_NoUpperBound(current, timeout) ==
    IF 5 <= timeout THEN timeout ELSE current

\* the timeout after set_timeout(timeout) on a client whose timeout is
\* current
set_timeout(current, timeout) ==
    IF 5 <= timeout /\ timeout <= 120 THEN timeout ELSE current

\* the retry count after set_retries(retries)
set_retries(current, retries) ==
    IF 1 <= retries /\ retries <= 10 THEN retries ELSE current

SetTimeout ==
    /\ caller.pc = "idle" /\ bc.pc = "idle" /\ nk.pc = "idle"
    /\ sg.pc = "idle"
    /\ \E timeout \in TimeoutInputs :
         cfg' = [cfg EXCEPT
                 !.timeout = set_timeout(cfg.timeout, timeout),
                 !.call = [NoCall EXCEPT !.name = "set_timeout",
                                         !.arg = <<timeout>>,
                                         !.before = <<cfg.timeout>>]]
    /\ UNCHANGED <<nodes, wifs, rpc, caller, bc, sent, nk, chain, sg,
                 clients, wg>>

SetRetries ==
    /\ caller.pc = "idle" /\ bc.pc = "idle" /\ nk.pc = "idle"
    /\ sg.pc = "idle"
    /\ \E retries \in RetriesInputs :
         cfg' = [cfg EXCEPT
                 !.retries = set_retries(cfg.retries, retries),
                 !.call = [NoCall EXCEPT !.name = "set_retries",
                                         !.arg = <<retries>>,
                                         !.before = <<cfg.retries>>]]
    /\ UNCHANGED <<nodes, wifs, rpc, caller, bc, sent, nk, chain, sg,
                 clients, wg>>

\* a node argument: an optional scheme, a host and an optional path
Urls ==
    { [scheme |-> "https://", host |-> "rpc.mock.site", path |-> "/rpc"],
      [scheme |-> "", host |-> "testnet.openhive.network", path |-> ""],
      [scheme |-> "http://", host |-> "", path |-> ""] }

\* re.sub of the two patterns: the scheme and everything from the first
\* slash after it are removed
StripPatterns(url) == url.host

NodeArguments == UNION {[1..n -> Urls] : n \in 1..MaxCustomList}

\* the hosts custom_nodes is expected to install for the argument
NormalizedHosts(arg) == [k \in DOMAIN arg |-> StripPatterns(arg[k])]

\* the loop of custom_nodes from the k-th node of the argument on: the node
\* list and the exception it ends with
RECURSIVE custom_nodes(_, _, _)
custom_nodes(current, arg, k) ==
    IF k > Len(arg) THEN [nodes |-> current, exc |-> NoExc]
    ELSE IF StripPatterns(arg[k]) = ""
         THEN [nodes |-> current,
               exc |-> Raise("NektarException", "Invalid node format.")]
         ELSE custom_nodes(Append(current, StripPatterns(arg[k])), arg, k + 1)

CustomNodes ==
    /\ caller.pc = "idle" /\ bc.pc = "idle" /\ nk.pc = "idle"
    /\ sg.pc = "idle"
    /\ Len(nodes) <= Len(NODES) + MaxCustomNodes
    /\ \E arg \in NodeArguments :
       \E out \in {custom_nodes(nodes, arg, 1)} :
         /\ nodes' = out.nodes
         /\ cfg' = [cfg EXCEPT
                    !.call = [NoCall EXCEPT !.name = "custom_nodes",
                                            !.arg = arg,
                                            !.exc = out.exc,
                                            !.before = wifs]]
    /\ UNCHANGED <<wifs, rpc, caller, bc, sent, nk, chain, sg, clients, wg>>

\* the roles and the keys append_wif is called with
RoleInputs == AllRoles \cup {"admin"}

WifInputs == {"5Ja", "5Jb"}

\* the dictionaries of append_wif, in the order of their items
WifDicts ==
    { d \in UNION {[1..n -> [role : RoleInputs, wif : WifInputs]] :
                   n \in 1..MaxCustomList} :
        \A j, k \in DOMAIN d : j # k => d[j].role # d[k].role }

KeysOf(keyring) == {keyring[r] : r \in DOMAIN keyring}

\* append_wif(wif, role) with a string wif: the key ring and the exception
\* it ends with
append_wif(keyring, wif, role) ==
    IF role \notin AllRoles
    THEN [wifs |-> keyring,
          exc |-> Raise("NektarException",
              "Role must be owner, active, posting, or memo only.")]
    ELSE IF wif \notin KeysOf(keyring)
         THEN [wifs |-> [r \in DOMAIN keyring \cup {role} |->
                             IF r = role THEN wif ELSE keyring[r]],
               exc |-> NoExc]
         ELSE [wifs |-> keyring, exc |-> NoExc]

\* append_wif(wif) with a dictionary: one append_wif per item, from the
\* k-th item on
RECURSIVE append_wif_dict(_, _, _)
append_wif_dict(keyring, items, k) ==
    IF k > Len(items) THEN [wifs |-> keyring, exc |-> NoExc]
    ELSE LET out == append_wif(keyring, items[k].wif, items[k].role)
         IN  IF out.exc # NoExc THEN out
             ELSE append_wif_dict(out.wifs, items, k + 1)

AppendWif ==
    /\ caller.pc = "idle" /\ bc.pc = "idle" /\ nk.pc = "idle"
    /\ sg.pc = "idle"
    /\ \/ \E wif \in WifInputs, role \in RoleInputs :
          \E out \in {append_wif(wifs, wif, role)} :
            /\ wifs' = out.wifs
            /\ cfg' = [cfg EXCEPT
                       !.call = [NoCall EXCEPT
                                 !.name = "append_wif", !.form = "string",
                                 !.arg = <<[role |-> role, wif |-> wif]>>,
                                 !.exc = out.exc, !.before = wifs]]
       \/ \E items \in WifDicts :
          \E out \in {append_wif_dict(wifs, items, 1)} :
            /\ wifs' = out.wifs
            /\ cfg' = [cfg EXCEPT
                       !.call = [NoCall EXCEPT
                                 !.name = "append_wif", !.form = "dict",
                                 !.arg = items,
                                 !.exc = out.exc, !.before = wifs]]
    /\ UNCHANGED <<nodes, rpc, caller, bc, sent, nk, chain, sg, clients, wg>>

(***************************************************************************)
(* Several AppBase instances.  Every instance binds self.nodes to the      *)
(* module's list NODES, so `nodes` is the one list object all of them      *)
(* hold.  For each instance: whether it was constructed, the hosts it was  *)
(* configured with, and the position and history of its request.           *)
(***************************************************************************)
ClientIds == {"a", "b"}

ClientIdle ==
    [made |-> FALSE, configured |-> {}, pc |-> "idle", i |-> 0,
     contacted |-> <<>>]

ClientsIdle == [c \in ClientIds |-> ClientIdle]

\* the list an instance reads as self.nodes: `self.nodes = NODES` binds the
\* module's list itself, and nothing rebinds it
NodeListOf(c) == nodes

\* the list a later `self.nodes = NODES` binds
ModuleNodes == nodes

\* the node arguments of the instances: None or one node
NoNodes == <<>>

ClientNodeArguments == {NoNodes} \cup {<<u>> : u \in Urls}

\* the hosts of an argument that custom_nodes accepts
ValidHosts(arg) ==
    {StripPatterns(arg[k]) : k \in DOMAIN arg} \ {""}

OthersIdle ==
    /\ caller.pc = "idle" /\ bc.pc = "idle" /\ nk.pc = "idle"
    /\ sg.pc = "idle" /\ rpc.pc = "idle" /\ wg.pc = "idle"

\* AppBase(nodes=arg): self.nodes = NODES, then custom_nodes(arg); the
\* instance exists when the constructor did not raise
Construct(c) ==
    /\ OthersIdle
    /\ ~clients[c].made
    /\ \E arg \in ClientNodeArguments :
       \E out \in {custom_nodes(ModuleNodes, arg, 1)} :
         /\ nodes' = out.nodes
         /\ clients' = [clients EXCEPT
                        ![c].made = (out.exc = NoExc),
                        ![c].configured = ValidHosts(arg)]
    /\ UNCHANGED <<wifs, rpc, caller, bc, sent, nk, chain, sg, cfg, wg>>

\* custom_nodes(arg) on an instance that was constructed without nodes
ClientCustomNodes(c) ==
    /\ OthersIdle
    /\ clients[c].made /\ clients[c].configured = {}
    /\ \E arg \in ClientNodeArguments \ {NoNodes} :
       \E out \in {custom_nodes(NodeListOf(c), arg, 1)} :
         /\ nodes' = out.nodes
         /\ clients' = [clients EXCEPT
                        ![c].configured = ValidHosts(arg)]
    /\ UNCHANGED <<wifs, rpc, caller, bc, sent, nk, chain, sg, cfg, wg>>

\* entry to _send_request of an instance
ClientSendRequest(c) ==
    /\ OthersIdle
    /\ clients[c].made /\ clients[c].pc = "idle"
    /\ clients' = [clients EXCEPT ![c].pc = "loop", ![c].i = 1]
    /\ UNCHANGED <<nodes, wifs, rpc, caller, bc, sent, nk, chain, sg, cfg,
                   wg>>

\* one iteration of `for node in self.nodes` of an instance: the node is
\* contacted and answers or fails
ClientPost(c) ==
    /\ clients[c].pc = "loop"
    /\ clients[c].i <= Len(NodeListOf(c))
    /\ \E completes \in BOOLEAN :
         clients' = [clients EXCEPT
            ![c].contacted = Append(@, NodeListOf(c)[clients[c].i]),
            ![c].i = @ + 1,
            ![c].pc = IF completes \/ clients[c].i = Len(NodeListOf(c))
                      THEN "returned" ELSE "loop"]
    /\ UNCHANGED <<nodes, wifs, rpc, caller, bc, sent, nk, chain, sg, cfg,
                   wg>>

(***************************************************************************)
(* nektar.py: the listings of Waggle (communities, subscribers, accounts,  *)
(* followers) and the delegation crawl.  wg is the one call in progress.   *)
(* The server holds `server` items in a fixed order, numbered from 1; a    *)
(* page is the range of numbers returned, and results is the list of the   *)
(* pages received, so that len(results) is the sum of their lengths.       *)
(***************************************************************************)
WgIdle ==
    [pc |-> "idle", op |-> "", limit |-> 0, given |-> FALSE, server |-> 0,
     custom_limit |-> 0, crawls |-> 0, page |-> 0, last |-> 0, crawl |-> 0,
     letter |-> 0, results |-> <<>>, answered |-> TRUE, returned |-> 0,
     start |-> 0, index |-> 0, top |-> 0, requests |-> 0, exc |-> NoExc]

WgRaise(w, exc) == [w EXCEPT !.pc = "error", !.exc = exc]

Listings == {"communities", "subscribers", "accounts", "followers"}

ListingMethod(op) ==
    CASE op = "communities" -> "bridge.list_communities"
      [] op = "subscribers" -> "bridge.list_subscribers"
      [] op = "accounts" -> "condenser_api.lookup_accounts"
      [] op = "followers" -> "condenser_api.get_followers"

\* the limit asked of the node when at least one crawl is made, which is
\* also the length a result must have for the crawl to go on
ApiLimit(op) == IF op \in {"communities", "subscribers"} THEN 100 ELSE 1000

\* crawls = custom_limit // 100
Crawls(custom_limit) == custom_limit \div 100

\* params["limit"] = custom_limit; if crawls > 0: params["limit"] = 100
ParamsLimit(op, custom_limit) ==
    IF Crawls(custom_limit) > 0 THEN ApiLimit(op) ELSE custom_limit

\* len(alphabet)
Letters == 26

LimitInputs == {0, 1, 10, 100, 150, 200, 2000}

ServerSizes == {0, 5, 100, 120, 300, 1500}

\* the node's answer to a listing request: at most `limit` items after the
\* item numbered `after`
Page(server, after, limit) ==
    [from |-> after + 1,
     to |-> IF after + limit < server THEN after + limit ELSE server]

NoPage == [from |-> 1, to |-> 0]

\* len(result)
PageLen(page) == IF page.to < page.from THEN 0 ELSE page.to - page.from + 1

RECURSIVE ResultsLen(_, _)
\* len(results), from the k-th page on
ResultsLen(results, k) ==
    IF k > Len(results) THEN 0
    ELSE PageLen(results[k]) + ResultsLen(results, k + 1)

\* results.extend(result)
Extend(results, result) ==
    IF PageLen(result) = 0 THEN results ELSE Append(results, result)

\* len(results[:custom_limit])
Sliced(results, custom_limit) ==
    IF ResultsLen(results, 1) < custom_limit
    THEN ResultsLen(results, 1) ELSE custom_limit

\* return results[:custom_limit]
ListingDone(w, results) ==
    [w EXCEPT !.pc = "done", !.results = results,
              !.returned = Sliced(results, w.custom_limit)]

\* a listing up to its first request; accounts is called with or without
\* a start string
Listing ==
    /\ wg.pc = "idle" /\ rpc.pc = "idle" /\ nk.pc = "idle"
    /\ bc.pc = "idle" /\ caller.pc = "idle" /\ sg.pc = "idle"
    /\ \E op \in Listings, limit \in LimitInputs, server \in ServerSizes,
          given \in BOOLEAN :
         /\ given => op = "accounts"
         /\ LET custom_limit == within_range(limit, 1, 10000, 100)
                w == [WgIdle EXCEPT
                        !.op = op, !.limit = limit, !.given = given,
                        !.server = server, !.custom_limit = custom_limit,
                        !.crawls = Crawls(custom_limit),
                        !.page = ParamsLimit(op, custom_limit)]
            IN  IF Crawls(custom_limit) = 0
                THEN /\ wg' = ListingDone(w, <<>>)
                     /\ rpc' = rpc
                ELSE /\ wg' = [w EXCEPT !.pc = "request", !.crawl = 1,
                                        !.letter = 1, !.requests = 1]
                     /\ rpc' = SendRequest(ListingMethod(op), TRUE)
    /\ UNCHANGED <<nodes, wifs, caller, bc, sent, nk, chain, sg, cfg, clients>>

\* the next request of the listing
ListingAgain(w) ==
    /\ wg' = [w EXCEPT !.requests = @ + 1]
    /\ rpc' = SendRequest(ListingMethod(w.op), TRUE)

\* accounts after its inner loop: the next letter, unless no start was
\* given or the alphabet is over
AfterLetter(w, results) ==
    IF ~w.given \/ w.letter = Letters
    THEN wg' = ListingDone(w, results) /\ rpc' = RpcIdle
    ELSE ListingAgain([w EXCEPT !.results = results, !.letter = @ + 1,
                                !.crawl = 1])

\* from the return of a request to the next request or to the return of
\* the listing
ListingReturn ==
    /\ wg.pc = "request" /\ rpc.pc = "returned"
    /\ IF rpc.exc # NoExc
       THEN /\ wg' = WgRaise([wg EXCEPT !.answered = FALSE], rpc.exc)
            /\ rpc' = RpcIdle
       ELSE LET result == IF rpc.ret = "data"
                          THEN Page(wg.server, wg.last, wg.page)
                          ELSE NoPage
                results == Extend(wg.results, result)
                w == [wg EXCEPT !.answered = @ /\ rpc.ret = "data"]
                short == PageLen(result) < ApiLimit(wg.op)
                enough == ResultsLen(results, 1) >= wg.custom_limit
            IN  CASE wg.op \in {"communities", "subscribers"} ->
                       IF short \/ enough \/ wg.crawl = wg.crawls
                       THEN /\ wg' = ListingDone(w, results)
                            /\ rpc' = RpcIdle
                       ELSE ListingAgain(
                              [w EXCEPT !.results = results,
                                        !.last = results[Len(results)].to,
                                        !.crawl = @ + 1])
                  [] wg.op = "followers" ->
                       IF short \/ enough
                       THEN /\ wg' = ListingDone(w, results)
                            /\ rpc' = RpcIdle
                       ELSE /\ wg' = WgRaise([w EXCEPT !.results = results],
                                       Raise("TypeError",
                                             "string indices must be integers"))
                            /\ rpc' = RpcIdle
                  [] wg.op = "accounts" ->
                       IF short THEN AfterLetter(w, results)
                       ELSE IF enough
                       THEN /\ wg' = ListingDone(w, results)
                            /\ rpc' = RpcIdle
                       ELSE IF wg.crawl < wg.crawls
                       THEN ListingAgain([w EXCEPT !.results = results,
                                                   !.crawl = @ + 1])
                       ELSE AfterLetter(w, results)
    /\ UNCHANGED <<nodes, wifs, caller, bc, sent, nk, chain, sg, cfg, clients>>

\* delegations, and delegators and delegatees, which pass their arguments
\* on to it
DelegationCalls == {"delegations", "delegators", "delegatees"}

\* start: -1 is the default of delegators and delegatees, 1000 the default
\* of delegations
StartInputs == {-1, 500, 1000, 1500, 2000}

\* the highest transaction number among the delegations of the account on
\* the node, 0 when it has none
HighestTids == {0, 1500, 3200}

\* the model follows a crawl up to this many requests
MaxRequests == 6

\* max(tids): tids = [1000], and item[0] of every item while top == 0
MaxTid(top, ret, server) ==
    IF top = 0 /\ ret = "data" /\ server > 1000 THEN server ELSE 1000

\* top = (max(tids) // 1000) * 1000
Top(maxtid) == (maxtid \div 1000) * 1000

\* delegations(account, active, start, inward) up to its first request
Delegations ==
    /\ wg.pc = "idle" /\ rpc.pc = "idle" /\ nk.pc = "idle"
    /\ bc.pc = "idle" /\ caller.pc = "idle" /\ sg.pc = "idle"
    /\ \E op \in DelegationCalls, start \in StartInputs,
          server \in HighestTids :
         LET w == [WgIdle EXCEPT !.op = op, !.start = start,
                                 !.server = server, !.index = -1]
         IN  IF start < 1000 \/ start % 1000 > 0
             THEN /\ wg' = WgRaise(w, Raise("NektarException",
                              "start must be a value by the factor of 1000."))
                  /\ rpc' = rpc
             ELSE /\ wg' = [w EXCEPT !.pc = "history", !.requests = 1]
                  /\ rpc' = SendRequest("condenser_api.get_account_history",
                                        TRUE)
    /\ UNCHANGED <<nodes, wifs, caller, bc, sent, nk, chain, sg, cfg, clients>>

\* the next pass of `while True`
DelegationsAgain(w) ==
    /\ w.requests < MaxRequests
    /\ wg' = [w EXCEPT !.requests = @ + 1]
    /\ rpc' = SendRequest("condenser_api.get_account_history", TRUE)

\* one pass of `while True` from the return of the request on: an
\* exception of the request is caught and the request made again
DelegationsReturn ==
    /\ wg.pc = "history" /\ rpc.pc = "returned"
    /\ IF rpc.exc # NoExc
       THEN DelegationsAgain([wg EXCEPT !.index = @ + 1000,
                                        !.answered = FALSE])
       ELSE LET top == IF wg.top = 0
                       THEN Top(MaxTid(wg.top, rpc.ret, wg.server))
                       ELSE wg.top
                index == (IF wg.top = 0 THEN wg.start ELSE wg.index) + 1000
                w == [wg EXCEPT !.top = top, !.index = index,
                                !.answered = @ /\ rpc.ret = "data"]
            IN  IF index > top
                THEN wg' = [w EXCEPT !.pc = "done"] /\ rpc' = RpcIdle
                ELSE DelegationsAgain(w)
    /\ UNCHANGED <<nodes, wifs, caller, bc, sent, nk, chain, sg, cfg, clients>>

(***************************************************************************)
(* Specifications                                                          *)
(***************************************************************************)
WifOf(role) ==
    CASE role = "owner" -> "5Jowner"
      [] role = "active" -> "5Jactive"
      [] role = "posting" -> "5Jposting"
      [] OTHER -> "5Jmemo"

\* the key rings append_wif can build: at most one key per role
KeyRings == {[r \in S |-> WifOf(r)] : S \in SUBSET AllRoles}

\* one request on its own, over every node list
InitTransport ==
    /\ nodes \in NodeLists
    /\ wifs = <<>>
    /\ rpc = RpcIdle
    /\ caller = CallerIdle
    /\ bc = BcIdle
    /\ sent = <<>>
    /\ nk = NkIdle
    /\ chain = [head |-> DefaultHead]
    /\ sg = SgIdle
    /\ cfg = CfgDefault
    /\ clients = ClientsIdle
    /\ wg = WgIdle

NextTransport == Request \/ Post \/ RequestReturn

SpecTransport == InitTransport /\ [][NextTransport]_vars

\* one broadcast, over every key ring, with the first MaxBroadcastNodes of
\* the default nodes
Init ==
    /\ nodes = SubSeq(NODES, 1, MaxBroadcastNodes)
    /\ wifs \in KeyRings
    /\ rpc = RpcIdle
    /\ caller = CallerIdle
    /\ bc = BcIdle
    /\ sent = <<>>
    /\ nk = NkIdle
    /\ chain = [head |-> DefaultHead]
    /\ sg = SgIdle
    /\ cfg = CfgDefault
    /\ clients = ClientsIdle
    /\ wg = WgIdle

Next == Broadcast \/ Post \/ Sign \/ Verify \/ Submit

Spec == Init /\ [][Next]_vars

\* get_reference_block_data on its own, over the head block numbers
InitTapos ==
    /\ nodes = SubSeq(NODES, 1, MaxBroadcastNodes)
    /\ wifs = <<>>
    /\ rpc = RpcIdle
    /\ caller = CallerIdle
    /\ bc = BcIdle
    /\ sent = <<>>
    /\ nk = NkIdle
    /\ chain \in {[head |-> h] : h \in Heads}
    /\ sg = SgIdle
    /\ cfg = CfgDefault
    /\ clients = ClientsIdle
    /\ wg = WgIdle

NextTapos ==
    \/ GetReferenceBlockData
    \/ Post
    \/ GetPreviousBlock
    \/ GetReferenceBlockDataReturn

SpecTapos == InitTapos /\ [][NextTapos]_vars

\* one broadcasting operation of Nektar, over every key ring
NextNektar ==
    \/ NektarOperation
    \/ Post
    \/ GetPreviousBlock
    \/ BuildTransaction
    \/ Sign
    \/ Verify
    \/ Submit
    \/ BroadcastReturn

SpecNektar == Init /\ [][NextNektar]_vars

\* a constructed client, over the timeout and retries arguments of the
\* constructor, and its set_timeout and set_retries calls
InitConfig ==
    /\ nodes = NODES
    /\ wifs = <<>>
    /\ rpc = RpcIdle
    /\ caller = CallerIdle
    /\ bc = BcIdle
    /\ sent = <<>>
    /\ nk = NkIdle
    /\ chain = [head |-> DefaultHead]
    /\ sg = SgIdle
    /\ \E timeout \in TimeoutInputs, retries \in RetriesInputs :
         cfg = [CfgDefault EXCEPT
                !.timeout = set_timeout(10, timeout),
                !.retries = set_retries(3, retries)]
    /\ clients = ClientsIdle
    /\ wg = WgIdle

NextConfig == SetTimeout \/ SetRetries

SpecConfig == InitConfig /\ [][NextConfig]_vars

\* a client constructed with the defaults: its node list and its key ring
InitClient ==
    /\ nodes = NODES
    /\ wifs = <<>>
    /\ rpc = RpcIdle
    /\ caller = CallerIdle
    /\ bc = BcIdle
    /\ sent = <<>>
    /\ nk = NkIdle
    /\ chain = [head |-> DefaultHead]
    /\ sg = SgIdle
    /\ cfg = CfgDefault
    /\ clients = ClientsIdle
    /\ wg = WgIdle

\* the custom_nodes calls of a client
NextNodes == CustomNodes

SpecNodes == InitClient /\ [][NextNodes]_vars

\* the append_wif calls of a client
NextKeys == AppendWif

SpecKeys == InitClient /\ [][NextKeys]_vars

\* one retried read, with the first MaxBroadcastNodes of the default nodes
InitRead ==
    /\ nodes = SubSeq(NODES, 1, MaxBroadcastNodes)
    /\ wifs = <<>>
    /\ rpc = RpcIdle
    /\ caller = CallerIdle
    /\ bc = BcIdle
    /\ sent = <<>>
    /\ nk = NkIdle
    /\ chain = [head |-> DefaultHead]
    /\ sg = SgIdle
    /\ cfg = CfgDefault
    /\ clients = ClientsIdle
    /\ wg = WgIdle

NextRead == ReadOperation \/ Post \/ ReadReturn

SpecRead == InitRead /\ [][NextRead]_vars

\* one listing, with the first MaxBroadcastNodes of the default nodes
InitListing == InitRead

NextListing == Listing \/ Post \/ ListingReturn

SpecListing == InitListing /\ [][NextListing]_vars

\* one delegation crawl
InitDelegations == InitRead

NextDelegations == Delegations \/ Post \/ DelegationsReturn

SpecDelegations == InitDelegations /\ [][NextDelegations]_vars

\* two instances made and configured in any order, each sending one request
InitClients == InitClient

NextClients ==
    \E c \in ClientIds :
       \/ Construct(c)
       \/ ClientCustomNodes(c)
       \/ ClientSendRequest(c)
       \/ ClientPost(c)

SpecClients == InitClients /\ [][NextClients]_vars

\* the functions of transactions.py over Scalars, Digests and every nonce
InitSign ==
    /\ nodes = SubSeq(NODES, 1, MaxBroadcastNodes)
    /\ wifs = <<>>
    /\ rpc = RpcIdle
    /\ caller = CallerIdle
    /\ bc = BcIdle
    /\ sent = <<>>
    /\ nk = NkIdle
    /\ chain = [head |-> DefaultHead]
    /\ sg = SgIdle
    /\ cfg = CfgDefault
    /\ clients = ClientsIdle
    /\ wg = WgIdle

NextSign ==
    \/ SignTransaction
    \/ SignIteration
    \/ RecoverSigner
    \/ RecoverPubkeyParameter

SpecSign == InitSign /\ [][NextSign]_vars

\* sign_transaction over the lists of keys and the serialized transactions
NextSignKeys == SignTransactionKeys \/ SignIterationFew

SpecSignKeys == InitSign /\ [][NextSignKeys]_vars

(***************************************************************************)
(* Properties                                                              *)
(***************************************************************************)
LastAnswer == rpc.answers[Len(rpc.answers)]

\* a connection or HTTP failure
Failed(answer) == answer.kind \in {"conn_fail", "http_fail"}

\* a parsed dictionary with a result field
HasResult(answer) ==
    answer.kind = "json" /\ answer.doc.py = "dict" /\ answer.doc.result # Absent

\* a parsed dictionary with an error field and no result field
IsRpcError(answer) ==
    /\ answer.kind = "json" /\ answer.doc.py = "dict"
    /\ answer.doc.result = Absent /\ answer.doc.error # Absent

NoSubmitSent == \A k \in DOMAIN sent : sent[k] \notin SubmitMethods

\* the SIGN step of the running broadcast has been done
Signed == bc.pc \in {"verify", "submit", "done"}

\* C1: Transport failover.  _send_request contacts the nodes strictly in
\* list order; while every node contacted so far failed (connection or HTTP
\* failure) it goes on to the next node and returns only when the list is
\* exhausted; and when the node after the failed ones answers with a result,
\* that result is returned and nothing is raised.  With the first N-1 of N
\* nodes failing and the last answering, this is the last node's result.
C1_FailoverInOrder ==
    LET n == Len(rpc.answers)
    IN  /\ Len(rpc.contacted) = n
        /\ n <= Len(nodes)
        /\ rpc.contacted = SubSeq(nodes, 1, n)
        /\ ( /\ rpc.pc = "returned"
             /\ \A k \in 1..(n - 1) : Failed(rpc.answers[k]) )
           => /\ Failed(LastAnswer) => n = Len(nodes)
              /\ HasResult(LastAnswer)
                   => rpc.ret = LastAnswer.doc.result /\ rpc.exc = NoExc

C1_Witness ==
    /\ rpc.pc = "returned"
    /\ Len(nodes) = 3 /\ nodes[1] # nodes[2]
    /\ Len(rpc.answers) = 3
    /\ Failed(rpc.answers[1]) /\ Failed(rpc.answers[2])
    /\ HasResult(LastAnswer)
    /\ rpc.ret = "data" /\ rpc.exc = NoExc

\* C8: Lenient transport calls never raise.  With strict = False,
\* _send_request returns the empty default and raises nothing when every
\* node failed, when the call ends on a body that is not JSON, and when the
\* node that ends the call answers with a JSON-RPC error object.
C8_LenientNeverRaises ==
    ( /\ rpc.pc = "returned" /\ ~rpc.strict
      /\ \/ \A k \in DOMAIN rpc.answers : rpc.answers[k].kind # "json"
         \/ LastAnswer.kind = "non_json"
         \/ IsRpcError(LastAnswer) )
    => rpc.ret = EmptyResult /\ rpc.exc = NoExc

C8_Witness ==
    /\ rpc.pc = "returned" /\ ~rpc.strict
    /\ Len(rpc.answers) = 2
    /\ rpc.answers[1].kind = "non_json"
    /\ IsRpcError(LastAnswer)
    /\ rpc.ret = EmptyResult /\ rpc.exc = NoExc

\* C9: Strict transport call with every node unreachable: when all
\* configured nodes fail and strict is true, _send_request raises an error
\* instead of returning the empty default.
C9_StrictAllFailedRaises ==
    ( /\ rpc.pc = "returned" /\ rpc.strict
      /\ Len(rpc.answers) = Len(nodes)
      /\ \A k \in DOMAIN rpc.answers : Failed(rpc.answers[k]) )
    => rpc.exc # NoExc

\* C10: Strict transport call with an RPC error.  When the first node that
\* completes answers with a JSON-RPC error object and strict is true, the
\* call raises an error carrying the node's message; when it answers with a
\* result field, exactly that result is returned.
C10_StrictRpcError ==
    rpc.pc = "returned"
    => /\ (IsRpcError(LastAnswer) /\ rpc.strict)
            => rpc.exc = Raise("NektarException", LastAnswer.doc.error)
       /\ HasResult(LastAnswer)
            => rpc.ret = LastAnswer.doc.result /\ rpc.exc = NoExc

C10_Witness ==
    /\ rpc.pc = "returned" /\ rpc.strict
    /\ Len(rpc.answers) = 2
    /\ Failed(rpc.answers[1])
    /\ IsRpcError(LastAnswer)
    /\ rpc.exc = Raise("NektarException", "Internal Error")

\* C2: Unknown operation rejected before the network.  A broadcast of a
\* transaction that contains an operation tag not in BLOCKCHAIN_OPERATIONS
\* ends in an error, and no request has been sent.
C2_UnknownOperationRejected ==
    ( /\ bc.pc # "idle"
      /\ \E k \in DOMAIN bc.operations :
            bc.operations[k].tag \notin BLOCKCHAIN_OPERATIONS )
    => /\ bc.pc = "error"
       /\ bc.exc = Raise("NektarException", "unsupported")
       /\ sent = <<>>
       /\ rpc.pc = "idle"

C2_Witness ==
    /\ bc.pc = "error"
    /\ Len(bc.operations) = 2
    /\ bc.operations[1].tag \in BLOCKCHAIN_OPERATIONS
    /\ bc.operations[2].tag \notin BLOCKCHAIN_OPERATIONS
    /\ sent = <<>>

\* the key ring holds none of the roles acceptable for the operation
NoAuthority ==
    /\ bc.operation \in DOMAIN ROLES
    /\ \A k \in DOMAIN ROLES[bc.operation] :
          ROLES[bc.operation][k] \notin DOMAIN wifs

\* the key ring holds a role acceptable for the operation
HasAuthority ==
    /\ bc.operation \in DOMAIN ROLES
    /\ \E k \in DOMAIN ROLES[bc.operation] :
          ROLES[bc.operation][k] \in DOMAIN wifs

\* C3: Missing authority is always fatal.  When the key ring holds none of
\* the roles acceptable for the transaction's operation, broadcast ends in
\* an error, in strict and in lenient mode, and no submit request is sent.
C3_MissingAuthorityFatal ==
    (bc.pc # "idle" /\ NoAuthority)
    => bc.pc # "done" /\ NoSubmitSent

\* C4: Strict verification gates submission.  In a strict broadcast whose
\* verify_authority call returned a negative result, the call ends in an
\* error and no submit request is sent.
C4_StrictVerifyGatesSubmit ==
    (bc.strict /\ bc.verified # Absent /\ ~Truthy(bc.verified))
    => /\ bc.pc = "error"
       /\ bc.exc.type = "NektarException"
       /\ NoSubmitSent
       /\ rpc.pc = "idle"

C4_Witness ==
    /\ bc.pc = "error" /\ bc.strict
    /\ bc.verified = "False"
    /\ bc.computed # <<>>
    /\ NoSubmitSent

\* C5: Signatures are overwritten, not merged.  After the SIGN step the
\* transaction's signatures are exactly the signatures computed in this
\* call; those the transaction carried when passed in are not kept.
C5_SignaturesOverwritten ==
    Signed => bc.signatures = Range(bc.computed)

\* C6: Least-privileged key selection.  When the key ring holds a role of
\* the operation's ordered role list, the resolver returns exactly one key,
\* that of the first role of the list the key ring holds, and exactly one
\* signature is computed.
C6_FirstHeldRole ==
    (Signed /\ HasAuthority)
    => LET R == ROLES[bc.operation]
       IN  /\ Len(bc.necessary) = 1
           /\ Len(bc.computed) = 1
           /\ \E k \in DOMAIN R :
                 /\ R[k] \in DOMAIN wifs
                 /\ \A j \in 1..(k - 1) : R[j] \notin DOMAIN wifs
                 /\ bc.necessary[1] = wifs[R[k]]
                 /\ bc.computed[1] = Signature(wifs[R[k]])

C6_Witness ==
    /\ Signed
    /\ bc.operation = "transfer"
    /\ {"owner", "active", "posting"} \subseteq DOMAIN wifs
    /\ bc.necessary = <<wifs["active"]>>
    /\ Len(bc.computed) = 1

\* the resolver is run for a custom_json operation without required_auths
\* (the operation the validation loop ends on)
ForCustomJsonWithoutAuths ==
    /\ Len(bc.operations) >= 1
    /\ bc.operations[Len(bc.operations)] = Op("custom_json", 0)

\* C7: A custom_json operation with an empty required_auths list is signed
\* with the posting key only: the resolver never selects active or owner
\* for it, whatever the key ring holds, and selects nothing when posting is
\* absent.
C7_CustomJsonPostingOnly ==
    (Signed /\ ForCustomJsonWithoutAuths)
    => bc.necessary =
         IF "posting" \in DOMAIN wifs THEN <<wifs["posting"]>> ELSE <<>>

C7_Witness ==
    /\ Signed /\ ForCustomJsonWithoutAuths
    /\ {"owner", "active", "posting"} \subseteq DOMAIN wifs
    /\ bc.necessary = <<wifs["posting"]>>

\* C11: Failover stops at the first completed response.  Once a node has
\* answered with HTTP success and a body that parses as JSON, whether the
\* document holds a result or an error, _send_request leaves the loop: no
\* later node is contacted, so a completed answer is only ever the last
\* answer of a call and the loop is not running after it.
C11_StopsAtFirstCompleted ==
    LET n == Len(rpc.answers)
    IN  /\ \A k \in 1..(n - 1) : rpc.answers[k].kind # "json"
        /\ (n >= 1 /\ LastAnswer.kind = "json")
             => /\ rpc.pc = "returned"
                /\ Len(rpc.contacted) = n

C11_Witness ==
    /\ rpc.pc = "returned"
    /\ Len(nodes) = 3
    /\ Len(rpc.contacted) = 2
    /\ Failed(rpc.answers[1])
    /\ IsRpcError(LastAnswer)

\* the requests of one broadcast run, in the order of the pipeline
PipelineRequests ==
    <<"condenser_api.get_transaction_hex", "condenser_api.verify_authority",
      bc.method>>

\* C12: Pipeline order.  In a broadcast run the steps happen in the order
\* validate, serialize, sign, verify, submit: the requests sent are, in this
\* order, the serialize request, the verification request and the submit
\* request, and the submit request is sent only when every operation passed
\* the validation, the serialize request returned the hex form and the
\* signatures computed by the SIGN step of this run are on the transaction.
C12_PipelineOrder ==
    /\ Len(sent) <= 3
    /\ sent = SubSeq(PipelineRequests, 1, Len(sent))
    /\ Len(sent) >= 1 => FirstUnsupported(bc.operations, 1) = 0
    /\ Len(sent) >= 2
         => /\ bc.serialized = "hex"
            /\ bc.computed =
                 sign_transaction(get_necessary_wifs(wifs, bc.operation))
            /\ Range(bc.computed) \subseteq bc.signatures
    /\ Len(sent) = 3 => bc.pc \in {"submit", "done", "error"}

C12_Witness ==
    /\ bc.pc = "done"
    /\ Len(bc.operations) = 2
    /\ Len(sent) = 3 /\ sent[3] \in SubmitMethods
    /\ bc.serialized = "hex"
    /\ bc.computed # <<>>
    /\ Range(bc.computed) \subseteq bc.signatures

\* C15: DONE returns the submit result.  When the submit request returns a
\* result, broadcast ends normally and returns that result, for
\* broadcast_transaction and for broadcast_transaction_synchronous, in
\* strict and in lenient mode.
C15_DoneReturnsSubmitResult ==
    [][ ( /\ bc.pc = "submit" /\ rpc.pc = "returned"
          /\ HasResult(LastAnswer) )
        => /\ bc'.pc = "done"
           /\ bc'.result = LastAnswer.doc.result
           /\ bc'.exc = NoExc ]_vars

\* the positions of the submit requests in the history
SubmitRequests == {k \in DOMAIN sent : sent[k] \in SubmitMethods}

\* C13: The debug flag suppresses submission.  When a broadcasting
\* operation of Nektar (custom_json, memo, new_post, reply, vote) is called
\* with debug = True, no submit request is sent and the operation returns
\* the result of the verification.
C13_DebugSuppressesSubmit ==
    (nk.op \in BroadcastingOperations /\ nk.debug)
    => /\ NoSubmitSent
       /\ nk.pc = "done" => nk.result = bc.verified

\* C14: The submit variant follows the caller's choice.  Every submit
\* request _broadcast causes is for broadcast_transaction_synchronous when
\* `synchronous` is true and for broadcast_transaction when it is false.
C14_SubmitVariant ==
    \A k \in SubmitRequests :
       sent[k] = IF nk.synchronous
                 THEN "condenser_api.broadcast_transaction_synchronous"
                 ELSE "condenser_api.broadcast_transaction"

C14_Witness ==
    /\ nk.pc = "done" /\ nk.synchronous
    /\ nk.calls = 2
    /\ Cardinality(SubmitRequests) = 2
    /\ \A k \in SubmitRequests :
          sent[k] = "condenser_api.broadcast_transaction_synchronous"

\* C16: Fresh reference data per broadcast attempt.  Every submit request
\* carries reference data of a resolution made for that attempt: a submit
\* request is preceded by a resolution, and between two submit requests
\* the reference data is resolved again.
C16_FreshReferenceData ==
    LET Resolutions ==
          {k \in DOMAIN sent :
              sent[k] = "database_api.get_dynamic_global_properties"}
    IN  \A k \in SubmitRequests :
          /\ \E m \in Resolutions : m < k
          /\ \A j \in SubmitRequests :
                j < k => \E m \in Resolutions : j < m /\ m < k

\* C17: Expiration offset bound.  The expiration of every transaction a
\* broadcasting operation builds is the build time plus an offset within
\* 5..120 seconds, whatever `expire` the caller passed.
C17_ExpirationOffsetBound ==
    nk.built => (5 <= nk.offset /\ nk.offset <= 120)

\* C18: Reference block number.  For a head block number h >= 3 read by
\* get_reference_block_data, ref_block_num is (h - 3) mod 2^16, a value in
\* 0..65535.
C18_RefBlockNum ==
    nk.head >= 3
    => /\ nk.ref_block_num = (nk.head - 3) % 65536
       /\ nk.ref_block_num \in 0..65535

C18_Witness ==
    /\ nk.pc = "done" /\ nk.resolved
    /\ nk.head = 65539
    /\ nk.ref_block_num = 0

\* C19 as stated: for head_block_number = 100003 ref_block_num is 100000.
C19_RefBlockNumIs100000 ==
    (nk.pc = "done" /\ nk.head = 100003) => nk.ref_block_num = 100000

\* C19: Reference block number, worked value.  For head_block_number =
\* 100003 ref_block_num is 34464, that is 100000 - 65536: the low 16 bits
\* of 100000.
C19_RefBlockNumIs34464 ==
    (nk.pc = "done" /\ nk.head = 100003) => nk.ref_block_num = 34464

C19_Witness ==
    /\ nk.pc = "done" /\ nk.resolved
    /\ nk.head = 100003
    /\ nk.ref_block_num = 34464

\* C20: Reference block prefix.  ref_block_prefix is the unsigned 32-bit
\* number written least significant byte first in bytes 4..7 of the
\* `previous` id of the block at height head_block_number - 2, where
\* head_block_number is the one read in the same resolution.
C20_RefBlockPrefix ==
    nk.resolved
    => LET d == PreviousOf(nk.head - 2)
           byte(k) == 16 * d[2 * k + 1] + d[2 * k + 2]
       IN  /\ nk.head = chain.head
           /\ nk.block_num = nk.head - 2
           /\ nk.ref_block_prefix.lo = byte(4) + 256 * byte(5)
           /\ nk.ref_block_prefix.hi = byte(6) + 256 * byte(7)

C20_Witness ==
    /\ nk.pc = "done" /\ nk.resolved
    /\ nk.head = 100003 /\ nk.block_num = 100001
    /\ nk.ref_block_prefix = [lo |-> 61488, hi |-> 63544]

\* the signature sign_transaction returned, as the units of its string
ReturnedSigstr == unhexlify(sg.signatures[1])

\* C21: Every signature returned by sign_transaction has a header byte in
\* {31, 32, 33, 34} followed by r and s in fixed-width fields of the length
\* of the order each (32 bytes on secp256k1, OrderLen units on the curve of
\* the model), hex-encoded with two characters per unit.
C21_SignatureLayout ==
    sg.pc \in {"done", "recovered"}
    => /\ Len(sg.signatures) = 1
       /\ Len(sg.signatures[1]) = 2 * (1 + 2 * OrderLen)
       /\ Len(ReturnedSigstr) = 1 + 2 * OrderLen
       /\ ReturnedSigstr[1] \in {31, 32, 33, 34}
       /\ \A k \in 2..Len(ReturnedSigstr) :
             ReturnedSigstr[k] \in 0..(DigitBase - 1)
       /\ string_to_number(SubSeq(ReturnedSigstr, 2, 1 + OrderLen)) = sg.r
       /\ string_to_number(SubSeq(ReturnedSigstr, 2 + OrderLen,
                                  1 + 2 * OrderLen)) = sg.s
       /\ DerLength(sg.r) = OrderLen /\ DerLength(sg.s) = OrderLen

C21_Witness ==
    /\ sg.pc = "done" /\ sg.retried
    /\ ReturnedSigstr[1] = 32
    /\ Len(sg.signatures[1]) = 10

\* the candidates that reconstruct the public key sg.pubkey from the
\* signature (sg.r, sg.s) and the digest
MatchingCandidates ==
    {i \in 0..3 :
       recover_public_key(sg.e, sigencode_string(sg.r, sg.s), i)
          = Ok(sg.pubkey)}

C23_SignRecoverRoundTrip ==
    sg.pc = "recovered" => sg.recovered = Ok(PublicKey(sg.d))

C23_Witness ==
    /\ sg.pc = "recovered"
    /\ sg.d = 40 /\ sg.e = 200
    /\ sg.header = 32
    /\ sg.recovered = Ok(PublicKey(40))


\* C24: after construction and after any sequence of set_timeout and
\* set_retries calls with integer arguments, the timeout is in 5..120 and
\* the retry count is in 1..10.
C24_ConfigurationBounds ==
    /\ 5 <= cfg.timeout /\ cfg.timeout <= 120
    /\ 1 <= cfg.retries /\ cfg.retries <= 10

\* set_timeout(121) was called on a client whose timeout had been set to
\* 120, and set the retry count to 10 before
C24_Witness ==
    /\ cfg.call.name = "set_timeout"
    /\ cfg.call.arg = <<121>>
    /\ cfg.timeout = 120
    /\ cfg.retries = 10

\* C25: after custom_nodes(L) with a non-empty list L of valid nodes, the
\* node list is exactly the normalized hostnames of L in the same order,
\* with none of the nodes configured before.
C25_CustomNodesReplaces ==
    (cfg.call.name = "custom_nodes" /\ cfg.call.exc = NoExc)
        => nodes = NormalizedHosts(cfg.call.arg)

\* C26: after any sequence of append_wif calls, in string or dictionary
\* form, every role of the key ring is one of owner, active, posting and
\* memo and maps to one key; an append_wif call with any other role raises
\* and leaves the key ring as it was.
C26_KeyRingInvariant ==
    /\ DOMAIN wifs \subseteq AllRoles
    /\ wifs \in [DOMAIN wifs -> WifInputs]
    /\ (/\ cfg.call.name = "append_wif"
        /\ \E k \in DOMAIN cfg.call.arg : cfg.call.arg[k].role \notin AllRoles)
         => /\ cfg.call.exc # NoExc
            /\ wifs = cfg.call.before

\* the requests a read has sent so far
ReadRequests == {k \in DOMAIN sent : sent[k] = ReadMethod(nk.op)}

\* C27: a read called with retries = n in 1..5 sends at most n requests,
\* stops at and returns the first non-empty result, and returns the empty
\* value if all n results are empty; for n >= 2 the requests are lenient
\* and an RPC error never raises; retries outside 1..5 raises before any
\* request is sent.
C27_BoundedReadRetry ==
    nk.op \in ReadOperations =>
      /\ ~ValidRetries(nk.retries) =>
            /\ nk.pc = "error" /\ nk.exc.type = "NektarException"
            /\ sent = <<>> /\ rpc.pc = "idle"
      /\ ValidRetries(nk.retries) =>
            /\ Len(sent) <= nk.retries
            /\ Cardinality(ReadRequests) = Len(sent)
            /\ \A k \in DOMAIN nk.results :
                 k < Len(nk.results) => PyLen(nk.results[k]) = 0
            /\ nk.pc = "done" =>
                 LET last == nk.results[Len(nk.results)]
                 IN  \/ PyLen(last) > 0 /\ nk.result = last
                     \/ /\ PyLen(last) = 0
                        /\ Len(nk.results) = nk.retries
                        /\ Len(sent) = nk.retries
                        /\ nk.result = EmptyValue(nk.op)
      /\ nk.retries >= 2 =>
            /\ rpc.pc # "idle" => ~rpc.strict
            /\ ~(nk.exc.type = "NektarException"
                 /\ nk.exc.msg \in ErrorMessages)

\* reblogs with retries = 3 returned the result of its third request after
\* two empty results, the first of them the lenient reading of an RPC error
C27_Witness ==
    /\ nk.op = "reblogs" /\ nk.pc = "done" /\ nk.retries = 3
    /\ nk.results = <<"{}", "{}", "data">>
    /\ nk.result = "data"
    /\ Len(sent) = 3

\* C28: a single call of a broadcasting operation sends at most one submit
\* request for its transaction, also when synchronous is true and the
\* first submit returns an empty result.
C28_AtMostOneSubmit ==
    nk.op \in BroadcastingOperations => Cardinality(SubmitRequests) <= 1

\* the roles acceptable for one operation of a transaction
AcceptableRoles(op) == Range(ROLES[DominantOperation(<<op>>)])

\* C29: for a transaction with several operations, the role chosen for
\* signing is in the acceptable-role list of every operation of the
\* transaction that has one, not only of the last operation.
C29_SelectedKeyCoversEveryOperation ==
    (Signed /\ Len(bc.necessary) = 1)
    => \A k \in DOMAIN bc.operations :
          DominantOperation(<<bc.operations[k]>>) \in DOMAIN ROLES
          => \E role \in AcceptableRoles(bc.operations[k]) :
                /\ role \in DOMAIN wifs
                /\ wifs[role] = bc.necessary[1]

\* C30: the verification request is sent only in strict mode; a lenient
\* broadcast goes from SIGN to SUBMIT without a verify_authority request.
C30_VerifyOnlyWhenStrict ==
    \A k \in DOMAIN sent :
       sent[k] = "condenser_api.verify_authority" => bc.strict

\* C31: an empty default result of the transport means unavailable and is
\* never treated as false: when the verification request returns the empty
\* default, broadcast does not report that the transaction lacks the
\* required signatures.
C31_UnavailableIsNotNegative ==
    bc.verified = EmptyResult
    => bc.exc # Raise("NektarException", "required signatures")


\* C32: configuring custom nodes on one instance leaves the node list of
\* every other instance, and the default list later instances get,
\* unchanged: every instance's list and every host it contacts is a default
\* node or one it was configured with itself, also when the requests of the
\* instances interleave.
C32_ClientsDoNotInterfere ==
    /\ ModuleNodes = NODES
    /\ \A c \in ClientIds :
         clients[c].made =>
           /\ Range(NodeListOf(c)) \subseteq
                 Range(NODES) \cup clients[c].configured
           /\ Range(clients[c].contacted) \subseteq
                 Range(NODES) \cup clients[c].configured


\* the units of the j-th signature sign_transaction has put in its list
SigstrOf(j) == unhexlify(sg.signatures[j])

C34_OneSignaturePerKey ==
    sg.pc = "done"
    => /\ Len(sg.signatures) = Len(sg.keys)
       /\ \A j \in DOMAIN sg.signatures :
             recover_public_key(sg.e,
                                SubSeq(SigstrOf(j), 2, 1 + 2 * OrderLen),
                                SigstrOf(j)[1] - 31)
                = Ok(PublicKey(sg.keys[j]))

\* two different keys were given and two signatures returned
C34_Witness ==
    /\ sg.pc = "done"
    /\ sg.keys = <<40, 1>>
    /\ Len(sg.signatures) = 2

\* the bytes of a hex string without the last byte
WithoutLastByte(hex) ==
    SubSeq(unhexlify(hex), 1, Len(unhexlify(hex)) - 1)

\* C36: the digest signed for every key is SHA256 of the bytes of the chain
\* id followed by the bytes of the serialized transaction without its last
\* byte, the same digest for every key of one call.
C36_DigestExcludesLastByte ==
    sg.serialized # <<>>
    => /\ Len(sg.used) = Len(sg.signatures)
       /\ \A j \in DOMAIN sg.used :
             sg.used[j] =
                string_to_number(
                   sha256(unhexlify(HIVE_CHAIN_ID)
                          \o WithoutLastByte(sg.serialized)))

\* two keys signed the digest of a transaction that ends in ff, the digest
\* of the transaction that ends in 00
C36_Witness ==
    /\ sg.pc = "done"
    /\ sg.serialized = <<1, 2, 15, 15>>
    /\ sg.used = <<188, 188>>
    /\ Len(sg.signatures) = 2


\* C35: set_timeout with a value outside 5..120 and set_retries with a
\* value outside 1..10 raise a ConfigurationError, and the stored value is
\* unchanged.
C35_InvalidConfigurationRaises ==
    /\ (/\ cfg.call.name = "set_timeout"
        /\ ~(5 <= cfg.call.arg[1] /\ cfg.call.arg[1] <= 120))
         => /\ cfg.call.exc.type = "ConfigurationError"
            /\ cfg.timeout = cfg.call.before[1]
    /\ (/\ cfg.call.name = "set_retries"
        /\ ~(1 <= cfg.call.arg[1] /\ cfg.call.arg[1] <= 10))
         => /\ cfg.call.exc.type = "ConfigurationError"
            /\ cfg.retries = cfg.call.before[1]


\* C39: after append_wif(w, r) with a valid role r returns, the key ring
\* maps r to w, whatever it contained before, also when w is already
\* registered under another role.
C39_AppendWifPostcondition ==
    (/\ cfg.call.name = "append_wif"
     /\ cfg.call.form = "string"
     /\ cfg.call.arg[1].role \in AllRoles
     /\ cfg.call.exc = NoExc)
      => /\ cfg.call.arg[1].role \in DOMAIN wifs
         /\ wifs[cfg.call.arg[1].role] = cfg.call.arg[1].wif


\* C37: the signatures list of every transaction that reaches the verify or
\* the submit request contains no value twice, also when the transaction
\* passed in already carried signatures.
C37_SignaturesDeduplicated ==
    bc.pc \in {"verify", "submit"}
    => /\ \A v \in BagToSet(bc.list) : CopiesIn(v, bc.list) = 1
       /\ BagToSet(bc.list) = BagToSet(bc.prior) \cup Range(bc.computed)

\* a transaction passed in with the same signature twice was signed and
\* verified, and is submitted
C37_Witness ==
    /\ bc.pc = "submit"
    /\ CopiesIn(PriorSignature, bc.prior) = 2
    /\ bc.computed # <<>>
    /\ BagCardinality(bc.list) = 1 + Len(bc.computed)



\* C38: communities, subscribers, accounts and followers called with a limit
\* L in 1..10000 return min(L, number of items the server has) items when
\* the node answers every request, for limits below the page size of the
\* node as well as above it.
C38_ListingHonoursLimit ==
    (/\ wg.op \in Listings
     /\ wg.pc \in {"done", "error"}
     /\ wg.answered
     /\ 1 <= wg.limit /\ wg.limit <= 10000)
      => /\ wg.pc = "done"
         /\ wg.returned =
              IF wg.limit < wg.server THEN wg.limit ELSE wg.server




\* C40: delegations, and delegators and delegatees, terminate after a
\* bounded number of account-history requests, also when the requests keep
\* failing: a crawl makes at most one request for the newest transactions
\* and one for every thousand transactions of the account.
C40_DelegationCrawlIsBounded ==
    wg.op \in DelegationCalls
    => wg.requests <=
         1 + (IF wg.server > 1000 THEN wg.server ELSE 1000) \div 1000


====
